---- MODULE Spec2Model ----
(***************************************************************************)
(* Batch matching of loan orders by the DebtHook operator.                 *)
(*                                                                         *)
(* The functions of operator/matching.ts are operators over sequences of   *)
(* task records.  They are exercised by:                                   *)
(*   Spec          the operator: NewLoanOrderCreated events fill a batch,  *)
(*                 the first block notified opens a numbered batch, a      *)
(*                 block ten later has processBatch match it per maturity; *)
(*   SpecCore, SpecTransfers, SpecGen                                       *)
(*                 direct calls of the generator, the filter, the          *)
(*                 evaluator and the transfer calculator on a task list;   *)
(*   SpecGroups, SpecRates                                                 *)
(*                 direct calls of the filter, the evaluator and the       *)
(*                 transfer calculator on combinations of one or two       *)
(*                 groups;                                                 *)
(*   SpecSigned    direct calls on task lists with a negative amount;      *)
(*   SpecScenarioA, SpecScenarioC                                          *)
(*                 the documented example batches, matched by generator,   *)
(*                 filter, evaluator, selector and transfer calculator;    *)
(*   SpecSelector  direct calls of computeBestLoanResult on a candidate    *)
(*                 list;                                                   *)
(*   SpecManager   the DebtOrderServiceManager contract under calls of     *)
(*                 its setters, of createLoanOrder and of                  *)
(*                 respondToLoanBatch, whose call of createBatchLoans may  *)
(*                 call back, return or revert;                            *)
(*   SpecMonitor, SpecMonitorLive                                          *)
(*                 the operator's event and block handlers beside the      *)
(*                 contract, one step per stretch of processBatch between  *)
(*                 two awaits, the second with block notifications that    *)
(*                 keep arriving;                                          *)
(*   SpecPoller, SpecPollerLive                                            *)
(*                 the polling loop of simple-operator.ts with callbacks   *)
(*                 that overlap, the second on a chain that keeps          *)
(*                 advancing under polls that keep running.                *)
(* bigint values are integers; a bigDecimal with 4 fractional digits is    *)
(* the integer of its value times 10^4.                                    *)
(***************************************************************************)
EXTENDS Integers, Sequences, FiniteSets, TLC

VARIABLES
  batch,            \* batches[latestBatchNumber]: tasks collected so far
  run,              \* the locals of the last processBatch call
  tasks,            \* direct call: the task list argument
  ret,              \* direct call: what the last call returned
  latestTaskNum,    \* the task id the next NewLoanOrderCreated event carries
  possibleResults,  \* direct call of the selector: the candidate list
  bestRet,          \* direct call of the selector: what it returned
  manager,          \* DebtOrderServiceManager: storage, clock, last call
  monitor,          \* startMonitoring: latestBatchNumber, batches, history
  poller            \* simple operator: currentBlock, pendingOrders, callbacks

vars == <<batch, run, latestTaskNum, tasks, ret, possibleResults, bestRet,
          manager, monitor, poller>>

-----------------------------------------------------------------------------
(* Bounds *)

MaxOrders == 3        \* orders the operator receives
MaxAmount == 2        \* principal amounts 1..MaxAmount (SpecTransfers)
MaxTasks == 3         \* tasks per direct call (SpecCore)
MaxGroupTasks == 4    \* tasks per direct call (SpecTransfers)
MaxGenTasks == 4      \* tasks per direct call (SpecGen)
MaxTaskId == 12       \* task ids 8..MaxTaskId (SpecGen)
MaxCandidates == 3    \* candidates per selector call
MaxEvalTasks == 4     \* tasks per direct call (SpecGroups, SpecRates)
MaxChainTasks == 2    \* successful createLoanOrder calls (SpecManager)
MaxChainBatches == 2  \* successful respondToLoanBatch calls (SpecManager)
MaxBlock == 12        \* highest block number notified (SpecMonitor)
MaxHeight == 11       \* blocks mined after the start (SpecPoller)
MaxLogBlock == 3      \* blocks after the start that hold a log (SpecPoller)
MaxCallbacks == 2     \* timer callbacks running at once (SpecPoller)

\* what the orders of a batch carry: two principal amounts, two interest
\* rates (bips) and two maturities stand for smaller and larger, lower and
\* higher, earlier and later
Amounts == {1, 2}

Rates == {0, 1}

Maturities == {1, 2}

-----------------------------------------------------------------------------
(* Generic helpers *)

Range(s) == {s[i] : i \in 1..Len(s)}

SetMin(S) == CHOOSE x \in S : \A y \in S : x <= y

SetMax(S) == CHOOSE x \in S : \A y \in S : x >= y

RECURSIVE Flatten(_)
Flatten(ss) ==
  IF ss = <<>> THEN <<>> ELSE Head(ss) \o Flatten(Tail(ss))

RECURSIVE SumPrincipal(_)
SumPrincipal(ts) ==
  IF ts = <<>> THEN 0 ELSE Head(ts).principalAmount + SumPrincipal(Tail(ts))

\* a / b on bigints: the quotient truncated toward zero
BigIntDivide(a, b) ==
  IF a >= 0 /\ b > 0 THEN a \div b
  ELSE IF a < 0 /\ b > 0 THEN -((-a) \div b)
  ELSE IF a >= 0 /\ b < 0 THEN -(a \div (-b))
  ELSE (-a) \div (-b)

\* Mathb.min / Mathb.max of operator/math.ts on bigints
Mathb_min(a, b) == IF a < b THEN a ELSE b

Mathb_max(a, b) == IF a > b THEN a ELSE b

\* Number.MAX_SAFE_INTEGER
MAX_SAFE_INTEGER == 2^53 - 1

\* a < 2^53, by two divisions for a >= 0
BelowTwoTo53(a) == a < 0 \/ (a \div 2^30) \div 2^23 = 0

\* the distance between neighbouring doubles at a >= 0: 1 below 2^53,
\* doubled at every power of two from there
RECURSIVE DoubleUlp(_)
DoubleUlp(a) == IF BelowTwoTo53(a) THEN 1 ELSE 2 * DoubleUlp(a \div 2)

\* Number(bigint): the nearest double, ties to the even mantissa; exact up
\* to 2^53 in magnitude (the values are below 2^256, so never Infinity)
Number(n) ==
  LET a == IF n < 0 THEN -n ELSE n
      ulp == DoubleUlp(a)
      low == (a \div ulp) * ulp
      rest == a - low
      rounded == IF 2 * rest < ulp THEN low
                 ELSE IF 2 * rest > ulp THEN low + ulp
                 ELSE IF (low \div ulp) % 2 = 0 THEN low
                 ELSE low + ulp
  IN IF BelowTwoTo53(a) THEN n
     ELSE IF n < 0 THEN -rounded ELSE rounded

IsLenderTask(t) == t.isLender

IsBorrowerTask(t) == ~t.isLender

\* matching.filter(task => task.isLender) and its complement
LendersOf(matching) == SelectSeq(matching, IsLenderTask)

BorrowersOf(matching) == SelectSeq(matching, IsBorrowerTask)

-----------------------------------------------------------------------------
(* removeDuplicates: the key of a combination is the JSON text of its      *)
(* groups' task ids, each group sorted by Array.prototype.sort() without a *)
(* comparator, that is by the decimal text of the ids.                     *)

RECURSIVE Digits(_)
Digits(n) == IF n < 10 THEN <<n>> ELSE Append(Digits(n \div 10), n % 10)

RECURSIVE SeqLexLess(_, _)
SeqLexLess(a, b) ==
  IF a = <<>> THEN b # <<>>
  ELSE IF b = <<>> THEN FALSE
  ELSE IF Head(a) # Head(b) THEN Head(a) < Head(b)
  ELSE SeqLexLess(Tail(a), Tail(b))

\* the default comparator of sort(): compare String(a) with String(b)
DefaultSortLess(a, b) == SeqLexLess(Digits(a), Digits(b))

RECURSIVE InsertSorted(_, _)
InsertSorted(x, s) ==
  IF s = <<>> THEN <<x>>
  ELSE IF DefaultSortLess(x, Head(s)) THEN <<x>> \o s
  ELSE <<Head(s)>> \o InsertSorted(x, Tail(s))

RECURSIVE DefaultSort(_)
DefaultSort(ids) ==
  IF ids = <<>> THEN <<>>
  ELSE InsertSorted(ids[Len(ids)], DefaultSort(SubSeq(ids, 1, Len(ids) - 1)))

\* combination.map(group => group.map(t => t.taskId).sort()); JSON.stringify
\* is one-to-one on nested arrays of numbers, so the array is the key
DuplicateKey(combination) ==
  [g \in 1..Len(combination) |->
     DefaultSort([i \in 1..Len(combination[g]) |-> combination[g][i].taskId])]

RECURSIVE KeepFirst(_, _)
KeepFirst(combinations, seen) ==
  IF combinations = <<>> THEN <<>>
  ELSE LET key == DuplicateKey(Head(combinations)) IN
       IF key \in seen THEN KeepFirst(Tail(combinations), seen)
       ELSE <<Head(combinations)>>
              \o KeepFirst(Tail(combinations), seen \cup {key})

removeDuplicatesNoFilter(combinations) == combinations

removeDuplicates(combinations) == KeepFirst(combinations, {})

-----------------------------------------------------------------------------
(* generateLoanTaskCombinations *)

\* the combination in which firstTask joins group i of subComb
CombineWithGroupDropped(firstTask, subComb, i) ==
  SubSeq(subComb, 1, i - 1) \o SubSeq(subComb, i + 1, Len(subComb))

CombineWithGroup(firstTask, subComb, i) ==
  SubSeq(subComb, 1, i - 1)
    \o << <<firstTask>> \o subComb[i] >>
    \o SubSeq(subComb, i + 1, Len(subComb))

RECURSIVE generateLoanTaskCombinations(_)
generateLoanTaskCombinations(ts) ==
  IF Len(ts) = 0 THEN <<>>
  ELSE IF Len(ts) = 1 THEN << << <<ts[1]>> >> >>
  ELSE
    LET firstTask == ts[1]
        restTasks == Tail(ts)
        subCombinations == generateLoanTaskCombinations(restTasks)
        separateFromRest == << << <<firstTask>>, restTasks >> >>
        separate ==
          [k \in 1..Len(subCombinations) |->
              << <<firstTask>> >> \o subCombinations[k]]
        combined ==
          Flatten([k \in 1..Len(subCombinations) |->
                     [i \in 1..Len(subCombinations[k]) |->
                        CombineWithGroup(firstTask, subCombinations[k], i)]])
    IN removeDuplicates(separateFromRest \o separate \o combined)

-----------------------------------------------------------------------------
(* isLoanCombinationPossible *)

\* lenders.map(l => Number(l.interestRateBips)), as the set Math.min ranges
\* over
LenderRates(matching) ==
  {Number(LendersOf(matching)[i].interestRateBips) :
     i \in 1..Len(LendersOf(matching))}

\* borrowers.map(b => Number(b.interestRateBips)), as the set Math.max
\* ranges over
BorrowerRates(matching) ==
  {Number(BorrowersOf(matching)[i].interestRateBips) :
     i \in 1..Len(BorrowersOf(matching))}

LenderMaturities(matching) ==
  {LendersOf(matching)[i].maturityTimestamp :
     i \in 1..Len(LendersOf(matching))}

BorrowerMaturities(matching) ==
  {BorrowersOf(matching)[i].maturityTimestamp :
     i \in 1..Len(BorrowersOf(matching))}

\* one iteration of the loop: TRUE where the code continues, FALSE where it
\* returns false.  The rates are compared as doubles; toString() is
\* one-to-one on bigints.
GroupPossibleNoMaturity(matching) ==
  \/ Len(matching) = 1
  \/ /\ Len(LendersOf(matching)) # 0
     /\ Len(BorrowersOf(matching)) # 0
     /\ ~(SetMin(LenderRates(matching)) > SetMax(BorrowerRates(matching)))

GroupPossible(matching) ==
  \/ Len(matching) = 1
  \/ /\ Len(LendersOf(matching)) # 0
     /\ Len(BorrowersOf(matching)) # 0
     /\ ~(SetMin(LenderRates(matching)) > SetMax(BorrowerRates(matching)))
     /\ \E m \in LenderMaturities(matching) : m \in BorrowerMaturities(matching)

isLoanCombinationPossiblePairsOnly(combination) ==
  \A g \in 1..Len(combination) :
    Len(combination[g]) # 1 /\ GroupPossible(combination[g])

isLoanCombinationPossible(combination) ==
  \A g \in 1..Len(combination) : GroupPossible(combination[g])

-----------------------------------------------------------------------------
(* computeLoanMatchingResult *)

MatchedTypes == {"FULL_MATCH", "PARTIAL_LENDER", "PARTIAL_BORROWER"}

RECURSIVE SetToSortedSeq(_)
SetToSortedSeq(S) ==
  IF S = {} THEN <<>>
  ELSE <<SetMin(S)>> \o SetToSortedSeq(S \ {SetMin(S)})

\* the maturities held by a lender and by a borrower, ascending
findCommonMaturities(lenders, borrowers) ==
  SetToSortedSeq(LenderMaturities(lenders) \cap BorrowerMaturities(borrowers))

\* a group of one task
SingleMatching(task) ==
  [loanTasks |-> <<task>>,
   feasibility |-> "NONE",
   totalLenderAmount |-> IF task.isLender THEN task.principalAmount ELSE 0,
   totalBorrowerAmount |-> IF ~task.isLender THEN task.principalAmount ELSE 0,
   matchedAmount |-> 0,
   effectiveRate |-> 0,
   maturityTimestamp |-> task.maturityTimestamp]

matchedAmountLocalMax(availableLenderAmount, availableBorrowerAmount) ==
  Mathb_max(availableLenderAmount, availableBorrowerAmount)

matchedAmountLocal(availableLenderAmount, availableBorrowerAmount) ==
  Mathb_min(availableLenderAmount, availableBorrowerAmount)

effectiveRateRoundedUp(minLenderRate, maxBorrowerRate) ==
  (minLenderRate + maxBorrowerRate + 1) \div 2

\* (minLenderRate + maxBorrowerRate) / BigInt(2): bigint division truncates
effectiveRateOf(minLenderRate, maxBorrowerRate) ==
  BigIntDivide(minLenderRate + maxBorrowerRate, 2)

\* the interestRateBips of a list of tasks, as bigints
RateBipsOf(ts) == {ts[i].interestRateBips : i \in 1..Len(ts)}

\* a group of several tasks.  minLenderRate starts at
\* BigInt(Number.MAX_SAFE_INTEGER) and is lowered by Mathb.min, so it is the
\* least lender rate below 2^53 - 1, and 2^53 - 1 where no lender has one
\* (capped); maxBorrowerRate starts at 0.  rateGap is the test
\* minLenderRate > maxBorrowerRate.
MultiMatching(matching) ==
  LET lenders == LendersOf(matching)
      borrowers == BorrowersOf(matching)
      availableLenderAmount == SumPrincipal(lenders)
      availableBorrowerAmount == SumPrincipal(borrowers)
      loweringRates == {r \in RateBipsOf(lenders) : BelowTwoTo53(r + 1)}
      capped == loweringRates = {}
      minLenderRate ==
        IF capped THEN MAX_SAFE_INTEGER ELSE SetMin(loweringRates)
      maxBorrowerRate == SetMax({0} \cup RateBipsOf(borrowers))
      rateGap == IF capped THEN BelowTwoTo53(maxBorrowerRate + 1)
                 ELSE minLenderRate > maxBorrowerRate
      commonMaturities == findCommonMaturities(lenders, borrowers)
      base == [loanTasks |-> matching,
               feasibility |-> "NONE",
               totalLenderAmount |-> availableLenderAmount,
               totalBorrowerAmount |-> availableBorrowerAmount,
               matchedAmount |-> 0,
               effectiveRate |-> 0,
               maturityTimestamp |-> 0]
  IN IF rateGap
       THEN [base EXCEPT !.feasibility = "NO_RATE_OVERLAP"]
     ELSE IF Len(commonMaturities) = 0
       THEN [base EXCEPT !.feasibility = "MATURITY_MISMATCH"]
     ELSE [base EXCEPT
             !.maturityTimestamp = commonMaturities[1],
             !.matchedAmount =
                matchedAmountLocal(availableLenderAmount,
                                   availableBorrowerAmount),
             !.effectiveRate = effectiveRateOf(minLenderRate, maxBorrowerRate),
             !.feasibility =
                IF availableLenderAmount = availableBorrowerAmount
                  THEN "FULL_MATCH"
                ELSE IF availableLenderAmount > availableBorrowerAmount
                  THEN "PARTIAL_LENDER"
                ELSE "PARTIAL_BORROWER"]

ComputeMatching(matching) ==
  IF Len(matching) = 1 THEN SingleMatching(matching[1])
  ELSE MultiMatching(matching)

CountsInTotalsMatchedOnly(m) == m.feasibility \in MatchedTypes

\* the groups whose side totals the loop adds to the global totals: single
\* tasks and matched groups (the two rejecting branches continue before)
CountsInTotals(m) ==
  Len(m.loanTasks) = 1 \/ m.feasibility \in MatchedTypes

RECURSIVE SumField(_, _)
SumField(ms, f) ==
  IF ms = <<>> THEN 0 ELSE Head(ms)[f] + SumField(Tail(ms), f)

RECURSIVE SumWeightedRateByLenderTotal(_)
SumWeightedRateByLenderTotal(ms) ==
  IF ms = <<>> THEN 0
  ELSE Head(ms).effectiveRate * Head(ms).totalLenderAmount
         + SumWeightedRateByLenderTotal(Tail(ms))

\* weightedLenderRate += effectiveRate * matchedAmountLocal, over the groups
RECURSIVE SumWeightedRate(_)
SumWeightedRate(ms) ==
  IF ms = <<>> THEN 0
  ELSE Head(ms).effectiveRate * Head(ms).matchedAmount
         + SumWeightedRate(Tail(ms))

\* bigDecimal a.divide(b, 4, RoundingModes.FLOOR) with a >= 0 and b > 0, as
\* the integer of the quotient times 10^4.  js-big-decimal is not among the
\* sources; the division is the one the specification describes, to 4
\* fractional digits rounding toward zero, which is what the arguments of
\* the call ask for: floor(a * 10^4 / b), computed from the integer part and
\* the remainder so that no intermediate value exceeds the larger of the
\* quotient and b, each times 10^4
DecimalDivideFloor(a, b) == (a \div b) * 10000 + ((a % b) * 10000) \div b

determineFeasibilityType(matchings) ==
  LET hasMatches ==
        \E i \in 1..Len(matchings) : matchings[i].feasibility \in MatchedTypes
      allFull ==
        \A i \in 1..Len(matchings) :
           matchings[i].feasibility \in {"FULL_MATCH", "NONE"}
      hasPartialLender ==
        \E i \in 1..Len(matchings) :
           matchings[i].feasibility = "PARTIAL_LENDER"
      hasPartialBorrower ==
        \E i \in 1..Len(matchings) :
           matchings[i].feasibility = "PARTIAL_BORROWER"
  IN IF ~hasMatches THEN "NONE"
     ELSE IF allFull THEN "FULL_MATCH"
     ELSE IF hasPartialLender /\ hasPartialBorrower THEN "PARTIAL_BOTH"
     ELSE IF hasPartialLender THEN "PARTIAL_LENDER"
     ELSE "PARTIAL_BORROWER"

computeLoanMatchingResult(combination) ==
  LET matchings == [g \in 1..Len(combination) |->
                      ComputeMatching(combination[g])]
      counted == SelectSeq(matchings, CountsInTotals)
      totalLenderAmount == SumField(counted, "totalLenderAmount")
      totalBorrowerAmount == SumField(counted, "totalBorrowerAmount")
      totalMatchedAmount == SumField(matchings, "matchedAmount")
      weightedRate == SumWeightedRate(matchings)
      averageRate == IF totalMatchedAmount > 0
                       THEN DecimalDivideFloor(weightedRate, totalMatchedAmount)
                       ELSE 0
      totalAmount == totalLenderAmount + totalBorrowerAmount
  IN [matchings |-> matchings,
      totalLenderAmount |-> totalLenderAmount,
      totalBorrowerAmount |-> totalBorrowerAmount,
      totalMatchedAmount |-> totalMatchedAmount,
      unmatchedLenderAmount |-> totalLenderAmount - totalMatchedAmount,
      unmatchedBorrowerAmount |-> totalBorrowerAmount - totalMatchedAmount,
      averageLenderRate |-> averageRate,
      averageBorrowerRate |-> averageRate,
      feasible |-> totalMatchedAmount > 0,
      feasibilityType |-> determineFeasibilityType(matchings),
      rateSpread |-> 0,
      matchingEfficiency |->
        IF totalAmount > 0
          THEN DecimalDivideFloor(totalMatchedAmount * 2, totalAmount)
          ELSE 0]

-----------------------------------------------------------------------------
(* computeBestLoanResult *)

\* what possibleResults[0] is for an empty array, and a null bestResult
Undefined == [undefined |-> TRUE]

\* the three-level comparison that replaces bestResult by result
IsBetterSmallerAmount(result, bestResult) ==
  \/ result.totalMatchedAmount < bestResult.totalMatchedAmount
  \/ /\ result.totalMatchedAmount = bestResult.totalMatchedAmount
     /\ \/ result.matchingEfficiency > bestResult.matchingEfficiency
        \/ /\ result.matchingEfficiency = bestResult.matchingEfficiency
           /\ result.averageBorrowerRate < bestResult.averageBorrowerRate

IsBetterOrEqualRate(result, bestResult) ==
  \/ result.totalMatchedAmount > bestResult.totalMatchedAmount
  \/ /\ result.totalMatchedAmount = bestResult.totalMatchedAmount
     /\ \/ result.matchingEfficiency > bestResult.matchingEfficiency
        \/ /\ result.matchingEfficiency = bestResult.matchingEfficiency
           /\ result.averageBorrowerRate <= bestResult.averageBorrowerRate

IsBetter(result, bestResult) ==
  \/ result.totalMatchedAmount > bestResult.totalMatchedAmount
  \/ /\ result.totalMatchedAmount = bestResult.totalMatchedAmount
     /\ \/ result.matchingEfficiency > bestResult.matchingEfficiency
        \/ /\ result.matchingEfficiency = bestResult.matchingEfficiency
           /\ result.averageBorrowerRate < bestResult.averageBorrowerRate

RECURSIVE BestLoop(_, _)
BestLoop(results, bestResult) ==
  IF results = <<>> THEN bestResult
  ELSE LET result == Head(results) IN
       IF ~result.feasible THEN BestLoop(Tail(results), bestResult)
       ELSE IF bestResult = Undefined THEN BestLoop(Tail(results), result)
       ELSE IF IsBetter(result, bestResult)
         THEN BestLoop(Tail(results), result)
       ELSE BestLoop(Tail(results), bestResult)

BestFallbackNone(results) == Undefined

\* possibleResults[0]
BestFallback(results) ==
  IF Len(results) > 0 THEN results[1] ELSE Undefined

\* bestResult || possibleResults[0]
computeBestLoanResult(results) ==
  LET bestResult == BestLoop(results, Undefined) IN
  IF bestResult # Undefined THEN bestResult
  ELSE BestFallback(results)

-----------------------------------------------------------------------------
(* computeLoanTransfers *)

lenderShareOfPrincipal(lender, matching) == lender.principalAmount

lenderShareOf(lender, matching) ==
  IF matching.totalLenderAmount > 0
    THEN BigIntDivide(lender.principalAmount * matching.matchedAmount,
                      matching.totalLenderAmount)
    ELSE 0

borrowerShareOfMatched(borrower, matching) == matching.matchedAmount

borrowerShareOf(borrower, matching) ==
  IF matching.totalBorrowerAmount > 0
    THEN BigIntDivide(borrower.principalAmount * matching.matchedAmount,
                      matching.totalBorrowerAmount)
    ELSE 0

transferAmountWholeShare(borrowerRemaining, lenderShare) == lenderShare

transferAmountOf(borrowerRemaining, lenderShare) ==
  Mathb_min(borrowerRemaining, lenderShare)

EmitsTransferAlways(transferAmount) == transferAmount >= 0

\* if (transferAmount > BigInt(0))
EmitsTransfer(transferAmount) == transferAmount > 0

\* the inner loop over the lenders for one borrower
RECURSIVE AllocateFromLenders(_, _, _, _)
AllocateFromLenders(lenders, borrower, borrowerRemaining, matching) ==
  IF lenders = <<>> \/ borrowerRemaining = 0 THEN <<>>
  ELSE
    LET lender == Head(lenders)
        lenderShare == lenderShareOf(lender, matching)
        transferAmount == transferAmountOf(borrowerRemaining, lenderShare)
    IN IF EmitsTransfer(transferAmount)
         THEN << [lender |-> lender.sender,
                  borrower |-> borrower.sender,
                  amount |-> transferAmount,
                  rate |-> matching.effectiveRate,
                  maturityTimestamp |-> matching.maturityTimestamp] >>
                \o AllocateFromLenders(Tail(lenders), borrower,
                                       borrowerRemaining - transferAmount,
                                       matching)
         ELSE AllocateFromLenders(Tail(lenders), borrower,
                                  borrowerRemaining, matching)

\* the transfers of one matching of the result
MatchingTransfers(matching) ==
  IF matching.feasibility \in {"NONE", "NO_RATE_OVERLAP", "MATURITY_MISMATCH"}
    THEN <<>>
  ELSE
    LET lenders == LendersOf(matching.loanTasks)
        borrowers == BorrowersOf(matching.loanTasks)
    IN Flatten([b \in 1..Len(borrowers) |->
                  AllocateFromLenders(lenders, borrowers[b],
                                      borrowerShareOf(borrowers[b], matching),
                                      matching)])

\* the transfers field of the returned object
computeLoanTransfers(result) ==
  Flatten([g \in 1..Len(result.matchings) |->
             MatchingTransfers(result.matchings[g])])

-----------------------------------------------------------------------------
(* The operator: startMonitoring and processBatch *)

RECURSIVE groupByMaturity(_)
groupByMaturityOneGroup(ts) ==
  IF ts = <<>> THEN <<>>
  ELSE << [maturity |-> ts[1].maturityTimestamp, tasks |-> ts] >>

\* the Map of task lists by maturity, in insertion order
groupByMaturity(ts) ==
  IF ts = <<>> THEN <<>>
  ELSE
    LET init == groupByMaturity(SubSeq(ts, 1, Len(ts) - 1))
        task == ts[Len(ts)]
        known == \E g \in 1..Len(init) :
                    init[g].maturity = task.maturityTimestamp
    IN IF known
         THEN [g \in 1..Len(init) |->
                 IF init[g].maturity = task.maturityTimestamp
                   THEN [init[g] EXCEPT !.tasks = Append(@, task)]
                   ELSE init[g]]
         ELSE Append(init, [maturity |-> task.maturityTimestamp,
                            tasks |-> <<task>>])

IsFeasible(result) == result.feasible

RECURSIVE AllLoanTasks(_)
AllLoanTasks(matchings) ==
  IF matchings = <<>> THEN <<>>
  ELSE Head(matchings).loanTasks \o AllLoanTasks(Tail(matchings))

\* if (allResults.length === 0) continue
NoFeasibleMatches(allResults) == Len(allResults) = 0

\* the rest of one pass once allResults is filled: the skip when no result
\* is feasible, else the best result, its transfers and its matched tasks
MaturityGroupResults(group, allResults) ==
  LET bestResult == computeBestLoanResult(allResults)
  IN IF NoFeasibleMatches(allResults)
       THEN [maturity |-> group.maturity, groupTasks |-> group.tasks,
             outcome |-> "No feasible matches",
             allResults |-> allResults,
             bestResult |-> Undefined, transfers |-> <<>>,
             matchedTasks |-> <<>>]
     ELSE [maturity |-> group.maturity, groupTasks |-> group.tasks,
           outcome |-> "Best result",
           allResults |-> allResults,
           bestResult |-> bestResult,
           transfers |-> computeLoanTransfers(bestResult),
           matchedTasks |-> AllLoanTasks(bestResult.matchings)]

\* one pass of the loop over the maturity groups: the combinations, the
\* filter, the results of the feasible ones, and the rest of the pass
ProcessMaturityGroup(group) ==
  LET allCombinations == generateLoanTaskCombinations(group.tasks)
      possibleCombinations ==
        SelectSeq(allCombinations, isLoanCombinationPossible)
  IN IF Len(possibleCombinations) = 0
       THEN [maturity |-> group.maturity, groupTasks |-> group.tasks,
             outcome |-> "No valid combinations",
             allResults |-> <<>>,
             bestResult |-> Undefined, transfers |-> <<>>,
             matchedTasks |-> <<>>]
     ELSE MaturityGroupResults(group,
            SelectSeq([i \in 1..Len(possibleCombinations) |->
                         computeLoanMatchingResult(possibleCombinations[i])],
                      IsFeasible))

NoRun == [called |-> FALSE]

\* the end of processBatch before the submission: allTransfers and
\* allMatchedTasks collected over the groups, and the test that decides
\* whether anything is submitted
CollectGroups(ts, groups) ==
  LET allTransfers == Flatten([g \in 1..Len(groups) |-> groups[g].transfers])
  IN [called |-> TRUE, tasks |-> ts, groups |-> groups,
      allTransfers |-> allTransfers,
      allMatchedTasks |->
        Flatten([g \in 1..Len(groups) |-> groups[g].matchedTasks]),
      submit |-> Len(allTransfers) > 0]

\* processBatch up to the submission: the early return on an empty batch, or
\* the loop over the maturity groups and the hand-over of allTransfers
ProcessBatchRun(ts) ==
  IF Len(ts) = 0
    THEN [called |-> TRUE, tasks |-> ts, groups |-> <<>>,
          allTransfers |-> <<>>, allMatchedTasks |-> <<>>,
          submit |-> FALSE]
  ELSE
    LET maturityGroups == groupByMaturity(ts)
    IN CollectGroups(ts, [g \in 1..Len(maturityGroups) |->
                            ProcessMaturityGroup(maturityGroups[g])])

MAX_BLOCKS_PER_BATCH == 10

\* batches[key], undefined read as no tasks
BatchOf(batches, key) ==
  IF key \in DOMAIN batches THEN batches[key] ELSE <<>>

\* batches[key].push(task), after creating the array where there is none
PushToBatch(batches, key, task) ==
  [k \in DOMAIN batches \cup {key} |->
     IF k = key THEN Append(BatchOf(batches, key), task) ELSE batches[k]]

\* delete batches[key]
DeleteBatch(batches, key) ==
  [k \in DOMAIN batches \ {key} |-> batches[k]]

OrderFields ==
  [isLender : BOOLEAN,
   principalAmount : Amounts,
   interestRateBips : Rates,
   maturityTimestamp : Maturities]

\* the LoanTask built from the event; every order has its own sender
MakeTask(f, id) ==
  [taskId |-> id,
   sender |-> id,
   isLender |-> f.isLender,
   principalAmount |-> f.principalAmount,
   interestRateBips |-> f.interestRateBips,
   maturityTimestamp |-> f.maturityTimestamp]

ZeroAddress == "0x0"

\* no call of the contract is waiting for an external call to return
NoPending == [active |-> FALSE]

\* DebtOrderServiceManager after deployment: debtHook and debtOrderBook
\* unset, no task hash, no response, no batch, currentBatchId 0;
\* block.timestamp at its first value
ManagerInit ==
  [debtHook |-> ZeroAddress,
   debtOrderBook |-> ZeroAddress,
   allTaskHashes |-> <<>>,
   allTaskResponses |-> <<>>,
   batches |-> <<>>,
   currentBatchId |-> 0,
   emitted |-> <<>>,
   timestamp |-> 0,
   pending |-> NoPending,
   lastCall |-> [fn |-> "none"]]

\* let latestBatchNumber = BigInt(0); const batches = {}; no block seen, no
\* event delivered, no processBatch call made or awaiting its submission.
\* matching is what processBatch computes from the current batch: it is
\* kept beside the batch so that the block handler need not recompute it.
MonitorInit ==
  [latestBatchNumber |-> 0,
   batches |-> <<>>,
   matching |-> ProcessBatchRun(<<>>),
   lastBlock |-> 0,
   delivered |-> 0,
   placed |-> <<>>,
   processed |-> <<>>,
   inflight |-> <<>>,
   submissions |-> <<>>]

\* simple-operator.ts after the first getBlockNumber of main: the chain is
\* at the block taken as currentBlock, no order is pending, no timer
\* callback is running, 'Processing batch' has not been reached
PollerInit ==
  [height |-> 0,
   currentBlock |-> 0,
   pendingOrders |-> <<>>,
   callbacks |-> <<>>,
   processings |-> 0,
   lastProcessed |-> 0]

IdleChain ==
  /\ manager = ManagerInit
  /\ monitor = MonitorInit
  /\ poller = PollerInit

IdleCall ==
  /\ tasks = <<>>
  /\ ret = [fn |-> "none"]

IdleSelector ==
  /\ possibleResults = <<>>
  /\ bestRet = [called |-> FALSE]

IdleOperator ==
  /\ batch = <<>>
  /\ run = NoRun
  /\ latestTaskNum = 0

Init ==
  /\ IdleOperator
  /\ IdleChain
  /\ IdleCall
  /\ IdleSelector

\* onLogs: one NewLoanOrderCreated event is added to the current batch,
\* batches[latestBatchNumber].  The locals of an earlier processBatch call
\* are gone by then.
onLogs(f) ==
  /\ latestTaskNum < MaxOrders
  /\ batch' = Append(batch, MakeTask(f, latestTaskNum))
  /\ latestTaskNum' = latestTaskNum + 1
  /\ run' = NoRun
  /\ UNCHANGED <<tasks, ret, possibleResults, bestRet,
               manager, monitor, poller>>

\* the block numbers notified to the operator: the first, and one ten
\* blocks later that closes the first batch
BatchBlocks == {1, 11}

\* onBlockNumber while latestBatchNumber is 0: 'First batch created'.  The
\* batch of that number becomes the current one; what onLogs collected
\* before stays under batches["0"].
firstBatchCreated(blockNumber) ==
  /\ monitor.latestBatchNumber = 0
  /\ monitor' =
       [monitor EXCEPT
          !.latestBatchNumber = blockNumber,
          !.batches = IF batch = <<>> THEN @ ELSE (0 :> batch)]
  /\ batch' = <<>>
  /\ UNCHANGED <<run, latestTaskNum, tasks, ret, possibleResults, bestRet,
                 manager, poller>>

\* onBlockNumber ten blocks or more after latestBatchNumber:
\* processBatch(latestBatchNumber) runs up to its first await, or to its end
\* where it has none, then latestBatchNumber = blockNumber makes the batch
\* of the new number the current one.  A batch with something to submit
\* stays in batches while its submission is awaited.
processBatch(blockNumber) ==
  /\ monitor.latestBatchNumber # 0
  /\ blockNumber - monitor.latestBatchNumber >= MAX_BLOCKS_PER_BATCH
  /\ run' = ProcessBatchRun(batch)
  /\ batch' = <<>>
  /\ monitor' =
       [monitor EXCEPT
          !.latestBatchNumber = blockNumber,
          !.batches = IF run'.submit
                        THEN (monitor.latestBatchNumber :> batch) @@ @
                      ELSE @]
  /\ UNCHANGED <<latestTaskNum, tasks, ret, possibleResults, bestRet,
                 manager, poller>>

\* the end of a processBatch call that was awaiting its submission, settled
\* or caught: delete batches[batchNumber]
submissionEnds(batchNumber) ==
  /\ batchNumber # 0
  /\ batchNumber \in DOMAIN monitor.batches
  /\ monitor' = [monitor EXCEPT !.batches = DeleteBatch(@, batchNumber)]
  /\ UNCHANGED <<batch, run, latestTaskNum, tasks, ret, possibleResults,
                 bestRet, manager, poller>>

Next ==
  \/ \E f \in OrderFields : onLogs(f)
  \/ \E blockNumber \in BatchBlocks : firstBatchCreated(blockNumber)
  \/ \E blockNumber \in BatchBlocks : processBatch(blockNumber)
  \/ \E batchNumber \in BatchBlocks : submissionEnds(batchNumber)

Spec == Init /\ [][Next]_vars

-----------------------------------------------------------------------------
(* Direct calls of the matching functions on one task list *)

TaskLists(Fields, maxLen) ==
  {[i \in 1..Len(fs) |-> MakeTask(fs[i], i)] :
     fs \in UNION {[1..n -> Fields] : n \in 0..maxLen}}

\* orders of any side at any rate and maturity, principal one unit
CoreFields ==
  [isLender : BOOLEAN,
   principalAmount : {1},
   interestRateBips : Rates,
   maturityTimestamp : Maturities]

\* orders of any side and amount at the lower rate and the earlier maturity
TransferFields ==
  [isLender : BOOLEAN,
   principalAmount : 1..MaxAmount,
   interestRateBips : {0},
   maturityTimestamp : {1}]

\* lists of tasks with distinct ids in any order
GenTaskLists ==
  {[i \in 1..Len(ids) |->
      MakeTask([isLender |-> ids[i] % 2 = 1,
                principalAmount |-> 1,
                interestRateBips |-> 0,
                maturityTimestamp |-> 1], ids[i])] :
     ids \in {s \in UNION {[1..n -> 8..MaxTaskId] : n \in 0..MaxGenTasks} :
                \A i, j \in 1..Len(s) : i # j => s[i] # s[j]}}

InitCore ==
  /\ tasks \in TaskLists(CoreFields, MaxTasks)
  /\ ret = [fn |-> "none"]
  /\ IdleOperator
  /\ IdleChain
  /\ IdleSelector

InitTransfers ==
  /\ tasks \in TaskLists(TransferFields, MaxGroupTasks)
  /\ ret = [fn |-> "none"]
  /\ IdleOperator
  /\ IdleChain
  /\ IdleSelector

InitGen ==
  /\ tasks \in GenTaskLists
  /\ ret = [fn |-> "none"]
  /\ IdleOperator
  /\ IdleChain
  /\ IdleSelector

CallGenerate ==
  /\ ret.fn = "none"
  /\ ret' = [fn |-> "generate",
             combinations |-> generateLoanTaskCombinations(tasks)]
  /\ UNCHANGED <<batch, run, latestTaskNum, tasks, possibleResults, bestRet,
               manager, monitor, poller>>

\* one generated combination handed to the filter, the evaluator and the
\* transfer calculator
CallEvaluate ==
  /\ ret.fn = "none"
  /\ \E combination \in Range(generateLoanTaskCombinations(tasks)) :
       ret' = [fn |-> "evaluate",
               combination |-> combination,
               possible |-> isLoanCombinationPossible(combination),
               result |-> computeLoanMatchingResult(combination),
               transfers |->
                 computeLoanTransfers(computeLoanMatchingResult(combination))]
  /\ UNCHANGED <<batch, run, latestTaskNum, tasks, possibleResults, bestRet,
               manager, monitor, poller>>

\* generator, filter, evaluator and selector in a row, without the operator's
\* selection of the feasible results between evaluator and selector
MatchPipeline(ts) ==
  LET combinations == generateLoanTaskCombinations(ts)
      feasible == SelectSeq(combinations, isLoanCombinationPossible)
      results == [i \in 1..Len(feasible) |->
                    computeLoanMatchingResult(feasible[i])]
      best == computeBestLoanResult(results)
  IN IF best = Undefined
       \* result.matchings of undefined
       THEN [fn |-> "match", outcome |-> "TypeError", results |-> results,
             best |-> best, transfers |-> <<>>]
       ELSE [fn |-> "match", outcome |-> "returned", results |-> results,
             best |-> best, transfers |-> computeLoanTransfers(best)]

CallMatch ==
  /\ ret.fn = "none"
  /\ ret' = MatchPipeline(tasks)
  /\ UNCHANGED <<batch, run, latestTaskNum, tasks, possibleResults, bestRet,
               manager, monitor, poller>>

NextCore == CallGenerate \/ CallEvaluate \/ CallMatch

SpecCore == InitCore /\ [][NextCore]_vars

NextTransfers == CallEvaluate

SpecTransfers == InitTransfers /\ [][NextTransfers]_vars

NextGen == CallGenerate

SpecGen == InitGen /\ [][NextGen]_vars

-----------------------------------------------------------------------------
(* Direct calls of the filter, the evaluator and the transfer calculator on *)
(* a combination of one group or of two groups                              *)

\* one-unit orders of any side, at three rates and two maturities
GroupFields ==
  [isLender : BOOLEAN,
   principalAmount : {1},
   interestRateBips : {0, 1, 2},
   maturityTimestamp : Maturities]

\* orders of any side, amount and rate at the earlier maturity
RateFields ==
  [isLender : BOOLEAN,
   principalAmount : Amounts,
   interestRateBips : Rates,
   maturityTimestamp : {1}]

\* the task list as one group, or cut into a first and a second group
SplitCombinations(ts) ==
  IF Len(ts) = 0 THEN {<<>>}
  ELSE {<<ts>>}
         \cup {<<SubSeq(ts, 1, k), SubSeq(ts, k + 1, Len(ts))>> :
                 k \in 1..(Len(ts) - 1)}

InitGroups ==
  /\ tasks \in TaskLists(GroupFields, MaxEvalTasks)
  /\ ret = [fn |-> "none"]
  /\ IdleOperator
  /\ IdleChain
  /\ IdleSelector

InitRates ==
  /\ tasks \in TaskLists(RateFields, MaxEvalTasks)
  /\ ret = [fn |-> "none"]
  /\ IdleOperator
  /\ IdleChain
  /\ IdleSelector

CallEvaluateSplit ==
  /\ ret.fn = "none"
  /\ \E combination \in SplitCombinations(tasks) :
       ret' = [fn |-> "evaluate",
               combination |-> combination,
               possible |-> isLoanCombinationPossible(combination),
               result |-> computeLoanMatchingResult(combination),
               transfers |->
                 computeLoanTransfers(computeLoanMatchingResult(combination))]
  /\ UNCHANGED <<batch, run, latestTaskNum, tasks, possibleResults, bestRet,
               manager, monitor, poller>>

NextSplit == CallEvaluateSplit

SpecGroups == InitGroups /\ [][NextSplit]_vars

SpecRates == InitRates /\ [][NextSplit]_vars

-----------------------------------------------------------------------------
(* Direct calls on task lists whose principal amounts are any bigint *)

\* orders of any side at the lower rate and the earlier maturity, with a
\* negative amount among the amounts
SignedFields ==
  [isLender : BOOLEAN,
   principalAmount : {-1} \cup Amounts,
   interestRateBips : {0},
   maturityTimestamp : {1}]

InitSigned ==
  /\ tasks \in TaskLists(SignedFields, MaxTasks)
  /\ ret = [fn |-> "none"]
  /\ IdleOperator
  /\ IdleChain
  /\ IdleSelector

NextSigned == CallGenerate \/ CallMatch

SpecSigned == InitSigned /\ [][NextSigned]_vars

-----------------------------------------------------------------------------
(* The documented example batches, matched by the four functions in a row *)

\* the arrangements of a list: the orders of a batch in any order of arrival
Arrangements(fs) ==
  {[i \in 1..Len(fs) |-> fs[p[i]]] :
     p \in {q \in [1..Len(fs) -> 1..Len(fs)] :
              \A i, j \in 1..Len(fs) : i # j => q[i] # q[j]}}

Order(isLender, principalAmount, interestRateBips, maturityTimestamp) ==
  [isLender |-> isLender,
   principalAmount |-> principalAmount,
   interestRateBips |-> interestRateBips,
   maturityTimestamp |-> maturityTimestamp]

\* Example Matching Scenario: Alice, Bob, Carol lend, Dave and Eve borrow
ScenarioA ==
  << Order(TRUE, 10000, 500, 1),
     Order(TRUE, 20000, 600, 1),
     Order(TRUE, 5000, 400, 1),
     Order(FALSE, 15000, 550, 1),
     Order(FALSE, 20000, 600, 1) >>

\* two lenders holding 30,000 together and one borrower wanting 20,000
ScenarioCPrincipals == {5000, 10000, 10001, 15000, 20000, 25000}

ScenarioCRates == {400, 500, 600}

ScenarioC ==
  {<< Order(TRUE, p, r[1], 1),
      Order(TRUE, 30000 - p, r[2], 1),
      Order(FALSE, 20000, r[3], 1) >> :
     p \in ScenarioCPrincipals,
     r \in {x \in [1..3 -> ScenarioCRates] : x[1] <= x[3] \/ x[2] <= x[3]}}

TasksOf(fs) == [i \in 1..Len(fs) |-> MakeTask(fs[i], i)]

InitScenarioA ==
  /\ tasks \in {TasksOf(fs) : fs \in Arrangements(ScenarioA)}
  /\ ret = [fn |-> "none"]
  /\ IdleOperator
  /\ IdleChain
  /\ IdleSelector

InitScenarioC ==
  /\ tasks \in {TasksOf(fs) : fs \in UNION {Arrangements(c) : c \in ScenarioC}}
  /\ ret = [fn |-> "none"]
  /\ IdleOperator
  /\ IdleChain
  /\ IdleSelector

NextScenario == CallMatch

SpecScenarioA == InitScenarioA /\ [][NextScenario]_vars

SpecScenarioC == InitScenarioC /\ [][NextScenario]_vars

-----------------------------------------------------------------------------
(* Direct calls of computeBestLoanResult on one candidate list *)

CandidateFields ==
  [totalMatchedAmount : {0, 1, 2},
   matchingEfficiency : {0, 1},
   averageBorrowerRate : {0, 1},
   feasibilityType : {"FULL_MATCH", "PARTIAL_LENDER"}]

\* feasible is totalMatchedAmount > 0, as the evaluator sets it
MakeCandidate(f) ==
  [feasible |-> f.totalMatchedAmount > 0,
   totalMatchedAmount |-> f.totalMatchedAmount,
   matchingEfficiency |-> f.matchingEfficiency,
   averageBorrowerRate |-> f.averageBorrowerRate,
   feasibilityType |-> f.feasibilityType]

InitSelector ==
  /\ possibleResults \in
       {[i \in 1..Len(fs) |-> MakeCandidate(fs[i])] :
          fs \in UNION {[1..n -> CandidateFields] : n \in 0..MaxCandidates}}
  /\ bestRet = [called |-> FALSE]
  /\ IdleOperator
  /\ IdleChain
  /\ IdleCall

\* the function has no throw statement: every call returns
CallBest ==
  /\ ~bestRet.called
  /\ bestRet' = [called |-> TRUE,
                 outcome |-> "returned",
                 value |-> computeBestLoanResult(possibleResults)]
  /\ UNCHANGED <<batch, run, latestTaskNum, tasks, ret, possibleResults,
               manager, monitor, poller>>

NextSelector == CallBest

SpecSelector == InitSelector /\ [][NextSelector]_vars

-----------------------------------------------------------------------------
(* DebtOrderServiceManager: createLoanOrder and respondToLoanBatch.  A      *)
(* mapping is the sequence of its written entries, entry k at index k + 1;  *)
(* an index beyond the sequence reads the zero value.  Fields that are     *)
(* written and never read by the contract (orderId, taskCreatedBlock,       *)
(* collateralRequired of a task, blockNumber of a batch) are left out.      *)

\* keccak256(abi.encode(x)): one digest per encoded value
Keccak(x) == <<"keccak256", x>>

ZeroHash == <<"bytes32", 0>>

EmptyBytes == <<>>

\* account.sign({hash}) and ECDSAUpgradeable.recover: the signer for the
\* digest that was signed, an address of no caller for any other digest
Sign(signer, hash) == [signer |-> signer, hash |-> hash]

Recover(hash, signature) ==
  IF signature.hash = hash THEN signature.signer ELSE "0xunrelated"

getLoanBatchHash(batchId, matches) == Keccak(<<batchId, matches>>)

\* the callers of respondToLoanBatch: a registered operator of sufficient
\* weight, and an account that is neither operator nor authorized contract
Callers == {"operator", "outsider"}

\* owner() of the Ownable base, set when the proxy is initialized
Owner == "owner"

operatorRegistered(a) == a = "operator"

operatorHasMinimumWeight(a) == a = "operator"

\* msg.sender == debtHook || msg.sender == debtOrderBook
IsAuthorized(m, a) == a = m.debtHook \/ a = m.debtOrderBook

LenderAddress == "lender"

BorrowerAddress == "borrower"

ReadHash(m, taskId) ==
  IF taskId + 1 <= Len(m.allTaskHashes) THEN m.allTaskHashes[taskId + 1]
  ELSE ZeroHash

ReadResponse(m, taskId) ==
  IF taskId + 1 <= Len(m.allTaskResponses) THEN m.allTaskResponses[taskId + 1]
  ELSE EmptyBytes

\* allTaskResponses[taskId] = signature
WriteResponse(responses, taskId, signature) ==
  [k \in 1..Mathb_max(Len(responses), taskId + 1) |->
     IF k = taskId + 1 THEN signature
     ELSE IF k <= Len(responses) THEN responses[k]
     ELSE EmptyBytes]

Revert(m, fn, reason) ==
  [m EXCEPT !.lastCall = [fn |-> fn, outcome |-> "revert", reason |-> reason]]

\* block.timestamp at the calls, and the expiry of the orders created
Timestamps == {0, 1}

Expiries == {1, 2}

\* the LoanOrderTask that createLoanOrder builds
LoanOrderTask(m, taskNum, a) ==
  [isLender |-> a.isLender,
   principalAmount |-> a.principalAmount,
   interestRateBips |-> a.interestRateBips,
   maturityTimestamp |-> a.maturityTimestamp,
   sender |-> a.sender,
   taskId |-> taskNum,
   minPrincipal |-> a.minPrincipal,
   maxPrincipal |-> a.maxPrincipal,
   minRate |-> a.minRate,
   maxRate |-> a.maxRate,
   expiry |-> a.expiry]

\* the arguments of createLoanOrder: one unit at rate 0 and maturity 1 from
\* the lender or the borrower address, or two units above maxPrincipal; the
\* lender's orders expire last, the borrower's at either time
CreateArgs ==
  {a \in {[isLender |-> l,
           principalAmount |-> p,
           interestRateBips |-> 0,
           maturityTimestamp |-> 1,
           sender |-> IF l THEN LenderAddress ELSE BorrowerAddress,
           minPrincipal |-> 1,
           maxPrincipal |-> 1,
           minRate |-> 0,
           maxRate |-> 0,
           expiry |-> e] : l \in BOOLEAN, p \in {1, 2}, e \in Expiries} :
     a.isLender => a.expiry = 2}

\* the first require that fails for tasks[i], referenceTaskIndices[i] from
\* index i on (1-based), or "ok"
RECURSIVE CheckTasks(_, _, _, _)
CheckTasks(m, ts, referenceTaskIndices, i) ==
  IF i > Len(referenceTaskIndices) THEN "ok"
  ELSE IF i > Len(ts) THEN "Panic: array out-of-bounds"
  ELSE IF Keccak(ts[i]) # ReadHash(m, referenceTaskIndices[i])
    THEN "Task not found"
  ELSE IF ReadResponse(m, referenceTaskIndices[i]) # EmptyBytes
    THEN "Task already responded"
  ELSE IF ~(ts[i].expiry > m.timestamp) THEN "Order expired"
  ELSE CheckTasks(m, ts, referenceTaskIndices, i + 1)

\* the inner loop of validateMatches over tasks[j..] for one match; v holds
\* matchedAmounts (by taskId), foundLender, foundBorrower and the first
\* failed require
RECURSIVE ValidateMatch(_, _, _, _)
ValidateMatch(ts, match, j, v) ==
  IF v.failed # "ok" \/ j > Len(ts) THEN v
  ELSE
    LET t == ts[j]
        asLender == t.sender = match.lender /\ t.isLender
        asBorrower == t.sender = match.borrower /\ ~t.isLender
        amount == IF t.taskId \in DOMAIN v.matchedAmounts
                    THEN v.matchedAmounts[t.taskId] ELSE 0
        added == amount + match.principalAmount
        counted == [k \in DOMAIN v.matchedAmounts \cup {t.taskId} |->
                      IF k = t.taskId THEN added ELSE v.matchedAmounts[k]]
    IN IF asLender
         THEN IF ~(match.interestRateBips >= t.minRate)
                THEN [v EXCEPT !.failed = "Rate below lender minimum"]
              ELSE IF match.maturityTimestamp # t.maturityTimestamp
                THEN [v EXCEPT !.failed = "Maturity mismatch"]
              ELSE IF ~(added <= t.maxPrincipal)
                THEN [v EXCEPT !.failed = "Exceeds lender max"]
              ELSE ValidateMatch(ts, match, j + 1,
                     [v EXCEPT !.matchedAmounts = counted,
                               !.foundLender = TRUE,
                               !.used = @ \cup {j}])
       ELSE IF asBorrower
         THEN IF ~(match.interestRateBips <= t.maxRate)
                THEN [v EXCEPT !.failed = "Rate above borrower maximum"]
              ELSE IF match.maturityTimestamp # t.maturityTimestamp
                THEN [v EXCEPT !.failed = "Maturity mismatch"]
              ELSE IF ~(added <= t.maxPrincipal)
                THEN [v EXCEPT !.failed = "Exceeds borrower max"]
              ELSE ValidateMatch(ts, match, j + 1,
                     [v EXCEPT !.matchedAmounts = counted,
                               !.foundBorrower = TRUE,
                               !.used = @ \cup {j}])
       ELSE ValidateMatch(ts, match, j + 1, v)

\* the outer loop of validateMatches from match i on; matchedAmounts starts
\* empty in every call.  used collects the indices of the tasks a match
\* was validated against.
RECURSIVE ValidateFrom(_, _, _, _)
ValidateFrom(ts, matches, i, v) ==
  IF v.failed # "ok" \/ i > Len(matches) THEN v
  ELSE
    LET w == ValidateMatch(ts, matches[i], 1,
                           [v EXCEPT !.foundLender = FALSE,
                                     !.foundBorrower = FALSE])
    IN IF w.failed # "ok" THEN w
       ELSE IF ~(w.foundLender /\ w.foundBorrower)
         THEN [w EXCEPT !.failed = "Invalid match participants"]
       ELSE ValidateFrom(ts, matches, i + 1, w)

validateMatches(ts, matches) ==
  ValidateFrom(ts, matches, 1,
               [matchedAmounts |-> <<>>, foundLender |-> FALSE,
                foundBorrower |-> FALSE, failed |-> "ok", used |-> {}])

RECURSIVE MarkResponded(_, _, _)
MarkResponded(responses, referenceTaskIndices, signature) ==
  IF referenceTaskIndices = <<>> THEN responses
  ELSE MarkResponded(WriteResponse(responses, Head(referenceTaskIndices),
                                   signature),
                     Tail(referenceTaskIndices), signature)

StoreTaskHashAtZero(hashes, taskNum, hash) == <<hash>>

\* allTaskHashes[latestTaskNum] = keccak256(abi.encode(task))
StoreTaskHash(hashes, taskNum, hash) ==
  [k \in 1..Mathb_max(Len(hashes), taskNum + 1) |->
     IF k = taskNum + 1 THEN hash
     ELSE IF k <= Len(hashes) THEN hashes[k] ELSE ZeroHash]

\* createLoanOrder as called by caller with arguments a
CreateLoanOrderCall(m, taskNum, caller, a) ==
  IF ~IsAuthorized(m, caller)
    THEN Revert(m, "createLoanOrder",
                "Only authorized contracts can call this function")
  ELSE IF ~(a.expiry > m.timestamp)
    THEN Revert(m, "createLoanOrder", "Order expired")
  ELSE IF ~(a.principalAmount >= a.minPrincipal
            /\ a.principalAmount <= a.maxPrincipal)
    THEN Revert(m, "createLoanOrder", "Invalid principal amount")
  ELSE
    LET task == LoanOrderTask(m, taskNum, a) IN
    [m EXCEPT
       !.allTaskHashes = StoreTaskHash(@, taskNum, Keccak(task)),
       !.emitted = Append(@, task),
       !.lastCall = [fn |-> "createLoanOrder", outcome |-> "ok",
                     preTaskNum |-> taskNum,
                     preHashes |-> m.allTaskHashes]]

\* setDebtHook(_debtHook) as called by caller
SetDebtHookCall(m, caller, _debtHook) ==
  IF caller # Owner
    THEN Revert(m, "setDebtHook", "Ownable: caller is not the owner")
  ELSE IF _debtHook = ZeroAddress
    THEN Revert(m, "setDebtHook", "Invalid address")
  ELSE [m EXCEPT !.debtHook = _debtHook,
                 !.lastCall = [fn |-> "setDebtHook", outcome |-> "ok"]]

\* setDebtOrderBook(_debtOrderBook) as called by caller
SetDebtOrderBookCall(m, caller, _debtOrderBook) ==
  IF caller # Owner
    THEN Revert(m, "setDebtOrderBook", "Ownable: caller is not the owner")
  ELSE IF _debtOrderBook = ZeroAddress
    THEN Revert(m, "setDebtOrderBook", "Invalid address")
  ELSE [m EXCEPT !.debtOrderBook = _debtOrderBook,
                 !.lastCall = [fn |-> "setDebtOrderBook", outcome |-> "ok"]]

\* respondToLoanBatch as called by caller, up to the external call
\* IDebtHook(debtHook).createBatchLoans: a revert, or the state in which
\* the callee runs, with the responses and the batch stored, executed
\* false and currentBatchId not yet advanced.  pending keeps what a revert
\* of the callee restores (pre, preTaskNum) and what the call reports when
\* it returns.  A call to an address without code reverts.
RespondToLoanBatchCall(m, taskNum, caller, ts, referenceTaskIndices, matches, signature) ==
  LET fn == "respondToLoanBatch"
      checked == CheckTasks(m, ts, referenceTaskIndices, 1)
      messageHash == getLoanBatchHash(m.currentBatchId, matches)
      signer == Recover(messageHash, signature)
      validated == validateMatches(ts, matches)
  IN IF ~operatorRegistered(caller)
       THEN Revert(m, fn, "Only operator can call this function")
     ELSE IF ~operatorHasMinimumWeight(caller)
       THEN Revert(m, fn, "Operator does not meet minimum weight")
     ELSE IF checked # "ok" THEN Revert(m, fn, checked)
     ELSE IF signer # caller THEN Revert(m, fn, "Invalid signature")
     ELSE IF validated.failed # "ok" THEN Revert(m, fn, validated.failed)
     ELSE IF m.debtHook = ZeroAddress
       THEN Revert(m, fn, "call to an address without code")
     ELSE
       [m EXCEPT
          !.allTaskResponses =
             MarkResponded(@, referenceTaskIndices, signature),
          !.batches =
             Append(@, [batchRoot |-> Keccak(matches),
                        executed |-> FALSE,
                        operator |-> caller]),
          !.pending =
             [active |-> TRUE,
              pre |-> m,
              preTaskNum |-> taskNum,
              call |-> [fn |-> fn, outcome |-> "ok",
                        caller |-> caller,
                        tasks |-> ts,
                        referenceTaskIndices |-> referenceTaskIndices,
                        matches |-> matches,
                        used |-> validated.used,
                        preBatchId |-> m.currentBatchId,
                        preResponses |-> m.allTaskResponses,
                        preTimestamp |-> m.timestamp]],
          !.lastCall = [fn |-> fn, outcome |-> "in createBatchLoans"]]

\* the rest of respondToLoanBatch once createBatchLoans has returned:
\* batches[currentBatchId].executed = true; currentBatchId++
CreateBatchLoansReturned(m) ==
  [m EXCEPT !.batches[m.currentBatchId + 1].executed = TRUE,
            !.currentBatchId = @ + 1,
            !.pending = NoPending,
            !.lastCall = m.pending.call]

\* createBatchLoans reverts and respondToLoanBatch with it: every write
\* since the call began is undone
CreateBatchLoansReverted(m) ==
  Revert(m.pending.pre, "respondToLoanBatch", "createBatchLoans reverted")

\* the subsequences of the sequence s
RECURSIVE Subsequences(_)
Subsequences(s) ==
  IF s = <<>> THEN {<<>>}
  ELSE LET rest == Subsequences(Tail(s))
       IN rest \cup {<<Head(s)>> \o r : r \in rest}

TaskIds(ts) == [i \in 1..Len(ts) |-> ts[i].taskId]

\* tasks submitted to respondToLoanBatch: emitted tasks in the order of
\* their ids
TaskArgs(m) == Subsequences(m.emitted)

\* referenceTaskIndices submitted with ts: the ids of a prefix of ts, or an
\* id no task has been stored under
ReferenceArgs(ts, taskNum) ==
  {SubSeq(TaskIds(ts), 1, k) : k \in 0..Len(ts)} \cup {<<taskNum>>}

LoanMatch(rate) ==
  [lender |-> LenderAddress,
   borrower |-> BorrowerAddress,
   principalAmount |-> 1,
   interestRateBips |-> rate,
   maturityTimestamp |-> 1]

MatchArgs == {<<LoanMatch(0)>>, <<LoanMatch(1)>>}

\* who calls and who signed which batch id relative to currentBatchId:
\* every caller with its own signature, and the operator with a signature
\* over another id and with another account's signature
Submissions ==
  {[caller |-> c, signer |-> c, idOffset |-> 0] : c \in Callers}
  \cup {[caller |-> "operator", signer |-> "operator", idOffset |-> 1],
        [caller |-> "operator", signer |-> "outsider", idOffset |-> 0]}

\* the tasks a submission carries: any choice of the emitted tasks with the
\* operator's own signature over the current id, all of them otherwise
SubmittedTasks(m, sub) ==
  IF sub.caller = sub.signer /\ sub.caller = "operator" /\ sub.idOffset = 0
    THEN TaskArgs(m)
  ELSE {m.emitted}

\* the referenceTaskIndices a submission carries: any of ReferenceArgs with
\* the operator's own signature over the current id, the ids of ts otherwise
SubmittedReferences(ts, taskNum, sub) ==
  IF sub.caller = sub.signer /\ sub.caller = "operator" /\ sub.idOffset = 0
    THEN ReferenceArgs(ts, taskNum)
  ELSE {TaskIds(ts)}

SignatureOf(m, sub, matches) ==
  Sign(sub.signer, getLoanBatchHash(m.currentBatchId + sub.idOffset, matches))

InitManager ==
  /\ manager = ManagerInit
  /\ latestTaskNum = 0
  /\ batch = <<>>
  /\ run = NoRun
  /\ monitor = MonitorInit
  /\ poller = PollerInit
  /\ IdleCall
  /\ IdleSelector

\* the addresses given to setDebtHook and to setDebtOrderBook
HookAddresses == {ZeroAddress, "debtHook", "otherHook"}

BookAddresses == {ZeroAddress, "debtOrderBook"}

\* no transaction is being executed
Settled == ~manager.pending.active

setDebtHook(caller, _debtHook) ==
  /\ Settled
  /\ manager' = SetDebtHookCall(manager, caller, _debtHook)
  /\ UNCHANGED <<batch, run, latestTaskNum, tasks, ret, possibleResults,
                 bestRet, monitor, poller>>

setDebtOrderBook(caller, _debtOrderBook) ==
  /\ Settled
  /\ manager' = SetDebtOrderBookCall(manager, caller, _debtOrderBook)
  /\ UNCHANGED <<batch, run, latestTaskNum, tasks, ret, possibleResults,
                 bestRet, monitor, poller>>

createLoanOrder(caller, a) ==
  /\ Settled
  /\ latestTaskNum < MaxChainTasks
  /\ manager' = CreateLoanOrderCall(manager, latestTaskNum, caller, a)
  /\ latestTaskNum' =
       IF manager'.lastCall.outcome = "ok" THEN latestTaskNum + 1
       ELSE latestTaskNum
  /\ UNCHANGED <<batch, run, tasks, ret, possibleResults, bestRet, monitor,
                 poller>>

\* respondToLoanBatch up to its call of createBatchLoans
respondToLoanBatch(caller, ts, referenceTaskIndices, matches, signature) ==
  /\ Settled
  /\ manager.currentBatchId < MaxChainBatches
  /\ manager' = RespondToLoanBatchCall(manager, latestTaskNum, caller, ts,
                                        referenceTaskIndices, matches,
                                        signature)
  /\ UNCHANGED <<batch, run, latestTaskNum, tasks, ret, possibleResults,
                 bestRet, monitor, poller>>

\* inside createBatchLoans the hook calls createLoanOrder: msg.sender is
\* debtHook, which onlyAuthorized lets through
createBatchLoansCallsBack(a) ==
  /\ manager.pending.active
  /\ latestTaskNum < MaxChainTasks
  /\ manager' = CreateLoanOrderCall(manager, latestTaskNum,
                                     manager.debtHook, a)
  /\ latestTaskNum' =
       IF manager'.lastCall.outcome = "ok" THEN latestTaskNum + 1
       ELSE latestTaskNum
  /\ UNCHANGED <<batch, run, tasks, ret, possibleResults, bestRet, monitor,
                 poller>>

createBatchLoansReturns ==
  /\ manager.pending.active
  /\ manager' = CreateBatchLoansReturned(manager)
  /\ UNCHANGED <<batch, run, latestTaskNum, tasks, ret, possibleResults,
                 bestRet, monitor, poller>>

createBatchLoansReverts ==
  /\ manager.pending.active
  /\ manager' = CreateBatchLoansReverted(manager)
  /\ latestTaskNum' = manager.pending.preTaskNum
  /\ UNCHANGED <<batch, run, tasks, ret, possibleResults, bestRet, monitor,
                 poller>>

\* a later block: block.timestamp advances
MineBlock ==
  /\ Settled
  /\ manager.timestamp + 1 \in Timestamps
  /\ manager' = [manager EXCEPT !.timestamp = @ + 1,
                                 !.lastCall = [fn |-> "none"]]
  /\ UNCHANGED <<batch, run, latestTaskNum, tasks, ret, possibleResults,
                 bestRet, monitor, poller>>

\* respondToLoanBatch by the operator with no task and no match, signed
\* over currentBatchId
respondToEmptyBatch ==
  respondToLoanBatch("operator", <<>>, <<>>, <<>>,
                     Sign("operator",
                          getLoanBatchHash(manager.currentBatchId, <<>>)))

\* the hook's side of a respondToLoanBatch transaction
NextHook ==
  \/ \E a \in CreateArgs : createBatchLoansCallsBack(a)
  \/ createBatchLoansReturns
  \/ createBatchLoansReverts

\* who calls a setter with which address: the owner with each address, an
\* account that is not the owner with one
SetterCalls(addresses) ==
  {[caller |-> Owner, address |-> a] : a \in addresses}
  \cup {[caller |-> "outsider", address |-> "debtHook"]}

\* who calls createLoanOrder with which arguments: the hook with each, the
\* order book and an account that is neither with one
CreateCalls ==
  {[caller |-> "debtHook", args |-> a] : a \in CreateArgs}
  \cup {[caller |-> c, args |-> a] :
          c \in {"debtOrderBook", "outsider"},
          a \in {x \in CreateArgs : x.isLender /\ x.principalAmount = 1}}

NextManager ==
  \/ \E c \in SetterCalls(HookAddresses) : setDebtHook(c.caller, c.address)
  \/ \E c \in SetterCalls(BookAddresses) :
       setDebtOrderBook(c.caller, c.address)
  \/ \E c \in CreateCalls : createLoanOrder(c.caller, c.args)
  \/ \E sub \in Submissions, matches \in MatchArgs :
       \E ts \in SubmittedTasks(manager, sub) :
         \E referenceTaskIndices \in
              SubmittedReferences(ts, latestTaskNum, sub) :
           respondToLoanBatch(sub.caller, ts, referenceTaskIndices, matches,
                              SignatureOf(manager, sub, matches))
  \/ respondToEmptyBatch
  \/ NextHook
  \/ MineBlock

SpecManager == InitManager /\ [][NextManager]_vars

-----------------------------------------------------------------------------
(* The operator of deployment_addresses.ts beside the contract: orders are  *)
(* created on the contract, their events are delivered to onLogs, block     *)
(* numbers to onBlockNumber, and processBatch submits to the contract.  The *)
(* operator keeps every field of the event's order (some under orderData)   *)
(* and the ABI encoding of a submitted task is taken to give back the       *)
(* contract's struct.                                                       *)

OperatorAccount == "operator"

\* allTransfers.map(transfer => ({...}))
LoanMatchesOf(allTransfers) ==
  [i \in 1..Len(allTransfers) |->
     [lender |-> allTransfers[i].lender,
      borrower |-> allTransfers[i].borrower,
      principalAmount |-> allTransfers[i].amount,
      interestRateBips |-> allTransfers[i].rate,
      maturityTimestamp |-> allTransfers[i].maturityTimestamp]]

RemoveAt(s, i) == SubSeq(s, 1, i - 1) \o SubSeq(s, i + 1, Len(s))

\* processBatch(batchNumber) up to its first await, called at block atBlock
\* on the current batch
ProcessBatchCall(mon, batchNumber, atBlock) ==
  LET ts == BatchOf(mon.batches, batchNumber)
      r == mon.matching
      call == [batchNumber |-> batchNumber, atBlock |-> atBlock,
               taskIds |-> TaskIds(ts)]
  IN IF Len(ts) = 0
       THEN [mon EXCEPT !.processed = Append(@, call)]
     ELSE IF r.submit
       THEN [mon EXCEPT
               !.processed = Append(@, call),
               !.inflight =
                  Append(@, [batchNumber |-> batchNumber,
                             allMatchedTasks |-> r.allMatchedTasks,
                             referenceTaskIds |-> TaskIds(r.allMatchedTasks),
                             loanMatches |-> LoanMatchesOf(r.allTransfers),
                             awaiting |-> "getLoanBatchHash"])]
     ELSE [mon EXCEPT !.processed = Append(@, call),
                      !.batches = DeleteBatch(@, batchNumber)]

\* the orders created in this specification: a lender or a borrower order of
\* one unit that does not expire
MonitorCreateArgs == {a \in CreateArgs : a.principalAmount = 1 /\ a.expiry = 2}

InitMonitor == InitManager

\* onLogs for the next NewLoanOrderCreated event not yet delivered; the
\* events of a transaction are delivered once it has been executed
onLogsEvent ==
  /\ Settled
  /\ monitor.delivered < Len(manager.emitted)
  /\ monitor' =
       [monitor EXCEPT
          !.batches = PushToBatch(@, monitor.latestBatchNumber,
                                  manager.emitted[monitor.delivered + 1]),
          !.matching =
             ProcessBatchRun(
               Append(BatchOf(monitor.batches, monitor.latestBatchNumber),
                      manager.emitted[monitor.delivered + 1])),
          !.placed = Append(@, monitor.latestBatchNumber),
          !.delivered = @ + 1]
  /\ UNCHANGED <<batch, run, latestTaskNum, tasks, ret, possibleResults,
                 bestRet, manager, poller>>

\* onBlockNumber(blockNumber); block numbers are notified in ascending
\* order, not necessarily each of them
onBlockNumber(blockNumber) ==
  /\ blockNumber > monitor.lastBlock
  /\ blockNumber <= MaxBlock
  /\ monitor' =
       LET seen == [monitor EXCEPT !.lastBlock = blockNumber] IN
       IF monitor.latestBatchNumber = 0
         THEN [seen EXCEPT !.latestBatchNumber = blockNumber,
                           !.matching = ProcessBatchRun(<<>>)]
       ELSE IF blockNumber - monitor.latestBatchNumber >= MAX_BLOCKS_PER_BATCH
         THEN [ProcessBatchCall(seen, monitor.latestBatchNumber, blockNumber)
                 EXCEPT !.latestBatchNumber = blockNumber,
                        !.matching = ProcessBatchRun(<<>>)]
       ELSE seen
  /\ UNCHANGED <<batch, run, latestTaskNum, tasks, ret, possibleResults,
                 bestRet, manager, poller>>

\* the i-th processBatch call that is awaiting awaits the promise named
Awaits(i, promise) ==
  /\ i \in 1..Len(monitor.inflight)
  /\ monitor.inflight[i].awaiting = promise

\* a promise of the i-th awaiting processBatch call rejects: the catch logs
\* the error, then delete batches[batchNumber] ends the call
SubmissionCaught(mon, i) ==
  [mon EXCEPT !.inflight = RemoveAt(@, i),
              !.batches = DeleteBatch(@, mon.inflight[i].batchNumber)]

\* await serviceManager.read.getLoanBatchHash([batchNumber, loanMatches])
getLoanBatchHashSettles(i, resolved) ==
  /\ Awaits(i, "getLoanBatchHash")
  /\ monitor' =
       IF resolved
         THEN [monitor EXCEPT
                 !.inflight[i] =
                    [awaiting |-> "sign",
                     messageHash |->
                       getLoanBatchHash(monitor.inflight[i].batchNumber,
                                        monitor.inflight[i].loanMatches)]
                    @@ @]
       ELSE SubmissionCaught(monitor, i)
  /\ UNCHANGED <<batch, run, latestTaskNum, tasks, ret, possibleResults,
                 bestRet, manager, poller>>

\* await account.sign({hash: messageHash})
signSettles(i, resolved) ==
  /\ Awaits(i, "sign")
  /\ monitor' =
       IF resolved
         THEN [monitor EXCEPT
                 !.inflight[i] =
                    [awaiting |-> "respondToLoanBatch",
                     signature |->
                       Sign(OperatorAccount, monitor.inflight[i].messageHash)]
                    @@ @]
       ELSE SubmissionCaught(monitor, i)
  /\ UNCHANGED <<batch, run, latestTaskNum, tasks, ret, possibleResults,
                 bestRet, manager, poller>>

\* await serviceManager.write.respondToLoanBatch([...]): the transaction is
\* sent and its execution begins, and the promise resolves with its hash;
\* or the call is found to revert and the promise rejects; or, with
\* reached FALSE, the request fails before it reaches the contract
respondToLoanBatchSettles(i, reached) ==
  /\ Awaits(i, "respondToLoanBatch")
  /\ Settled
  /\ LET p == monitor.inflight[i]
         called == RespondToLoanBatchCall(manager, latestTaskNum,
                                          OperatorAccount, p.allMatchedTasks,
                                          p.referenceTaskIds, p.loanMatches,
                                          p.signature)
         submitted ==
           [monitor EXCEPT
              !.submissions =
                 Append(@, [batchNumber |-> p.batchNumber,
                            loanMatches |-> p.loanMatches,
                            signature |-> p.signature,
                            currentBatchId |-> manager.currentBatchId,
                            outcome |-> called.lastCall])]
     IN IF ~reached
          THEN /\ manager' = manager
               /\ monitor' = SubmissionCaught(monitor, i)
        ELSE /\ manager' = called
             /\ monitor' =
                  IF called.pending.active
                    THEN [submitted EXCEPT
                            !.inflight[i].awaiting =
                               "waitForTransactionReceipt"]
                  ELSE SubmissionCaught(submitted, i)
  /\ UNCHANGED <<batch, run, latestTaskNum, tasks, ret, possibleResults,
                 bestRet, poller>>

\* await publicClient.waitForTransactionReceipt({hash}) once the
\* transaction has been executed: whether the promise resolves with the
\* receipt or rejects, delete batches[batchNumber] ends the call
waitForTransactionReceiptSettles(i) ==
  /\ Awaits(i, "waitForTransactionReceipt")
  /\ Settled
  /\ monitor' = SubmissionCaught(monitor, i)
  /\ UNCHANGED <<batch, run, latestTaskNum, tasks, ret, possibleResults,
                 bestRet, manager, poller>>

NextMonitor ==
  \/ setDebtHook(Owner, "debtHook")
  \/ \E a \in MonitorCreateArgs : createLoanOrder("debtHook", a)
  \/ respondToEmptyBatch
  \/ NextHook
  \/ onLogsEvent
  \/ \E blockNumber \in 1..MaxBlock : onBlockNumber(blockNumber)
  \/ \E i \in 1..MaxChainTasks, resolved \in BOOLEAN :
       \/ getLoanBatchHashSettles(i, resolved)
       \/ signSettles(i, resolved)
       \/ respondToLoanBatchSettles(i, resolved)
  \/ \E i \in 1..MaxChainTasks : waitForTransactionReceiptSettles(i)

SpecMonitor == InitMonitor /\ [][NextMonitor]_vars

\* block notifications keep arriving while the chain grows
FairMonitor ==
  WF_vars(\E blockNumber \in 1..MaxBlock : onBlockNumber(blockNumber))

SpecMonitorLive == SpecMonitor /\ FairMonitor

-----------------------------------------------------------------------------
(* simple-operator.ts: the setInterval callback, one step per stretch of    *)
(* code between two awaits.  Each of the first MaxLogBlock blocks mined     *)
(* after the start holds one log of the ServiceManager, the later blocks    *)
(* hold none; a log is the raw log that getLogs returns.                    *)

\* the logs of the blocks fromBlock..toBlock
RECURSIVE LogsOf(_, _)
LogsOf(fromBlock, toBlock) ==
  IF fromBlock > toBlock \/ fromBlock > MaxLogBlock THEN <<>>
  ELSE <<[blockNumber |-> fromBlock]>> \o LogsOf(fromBlock + 1, toBlock)

\* o.isLender of a raw log: the property does not exist, undefined is falsy
IsLenderOrder(o) == FALSE

\* the orders left pending after the matching step at 'Processing batch'
AfterSimpleMatching(pendingOrders) ==
  IF /\ Len(pendingOrders) >= 2
     /\ \E i \in 1..Len(pendingOrders) : IsLenderOrder(pendingOrders[i])
     /\ \E i \in 1..Len(pendingOrders) : ~IsLenderOrder(pendingOrders[i])
    THEN <<>>
  ELSE pendingOrders

InitPoller ==
  /\ poller = PollerInit
  /\ manager = ManagerInit
  /\ monitor = MonitorInit
  /\ IdleOperator
  /\ IdleCall
  /\ IdleSelector

\* the chain mines a block
NewBlock(maxHeight) ==
  /\ poller.height < maxHeight
  /\ poller' = [poller EXCEPT !.height = @ + 1]
  /\ UNCHANGED <<batch, run, latestTaskNum, tasks, ret, possibleResults,
                 bestRet, manager, monitor>>

\* the interval elapses: a callback starts and awaits getBlockNumber
timerFires(maxCallbacks) ==
  /\ Len(poller.callbacks) < maxCallbacks
  /\ poller' = [poller EXCEPT
                  !.callbacks = Append(@, [awaiting |-> "getBlockNumber"])]
  /\ UNCHANGED <<batch, run, latestTaskNum, tasks, ret, possibleResults,
                 bestRet, manager, monitor>>

\* getBlockNumber of the i-th running callback resolves with the chain's
\* height or rejects; the callback goes on to its getLogs call or ends
getBlockNumberSettles(i, resolved) ==
  /\ i \in 1..Len(poller.callbacks)
  /\ poller.callbacks[i].awaiting = "getBlockNumber"
  /\ poller' =
       LET latestBlock == poller.height IN
       IF resolved /\ latestBlock > poller.currentBlock
         THEN [poller EXCEPT
                 !.callbacks[i] = [awaiting |-> "getLogs",
                                   latestBlock |-> latestBlock,
                                   fromBlock |-> poller.currentBlock + 1,
                                   toBlock |-> latestBlock]]
       ELSE [poller EXCEPT !.callbacks = RemoveAt(@, i)]
  /\ UNCHANGED <<batch, run, latestTaskNum, tasks, ret, possibleResults,
                 bestRet, manager, monitor>>

\* getLogs of the i-th running callback resolves or rejects; the callback
\* runs to its end
getLogsSettles(i, resolved) ==
  /\ i \in 1..Len(poller.callbacks)
  /\ poller.callbacks[i].awaiting = "getLogs"
  /\ poller' =
       LET c == poller.callbacks[i]
           pushed == poller.pendingOrders \o LogsOf(c.fromBlock, c.toBlock)
           processing == c.latestBlock - poller.currentBlock >= 10
       IN IF ~resolved
            THEN [poller EXCEPT !.callbacks = RemoveAt(@, i)]
          ELSE [poller EXCEPT
                  !.callbacks = RemoveAt(@, i),
                  !.pendingOrders =
                     IF processing THEN AfterSimpleMatching(pushed)
                     ELSE pushed,
                  !.processings = IF processing THEN @ + 1 ELSE @,
                  !.lastProcessed = IF processing THEN c.latestBlock ELSE @,
                  !.currentBlock = c.latestBlock]
  /\ UNCHANGED <<batch, run, latestTaskNum, tasks, ret, possibleResults,
                 bestRet, manager, monitor>>

CallbackContinues ==
  \E i \in 1..MaxCallbacks, resolved \in BOOLEAN :
    getBlockNumberSettles(i, resolved) \/ getLogsSettles(i, resolved)

getBlockNumberResolves ==
  \E i \in 1..MaxCallbacks : getBlockNumberSettles(i, TRUE)

getLogsResolves == \E i \in 1..MaxCallbacks : getLogsSettles(i, TRUE)

\* the chain grows and the interval elapses whether or not an earlier
\* callback is still awaiting
NextPoller ==
  \/ NewBlock(MaxHeight)
  \/ timerFires(MaxCallbacks)
  \/ \E i \in 1..MaxCallbacks, resolved \in BOOLEAN :
       getBlockNumberSettles(i, resolved)
  \/ \E i \in 1..MaxCallbacks, resolved \in BOOLEAN :
       getLogsSettles(i, resolved)

SpecPoller == InitPoller /\ [][NextPoller]_vars

\* the chain keeps advancing, the interval keeps elapsing, every request
\* is settled, and a request that is made again and again is not rejected
\* for ever
FairPoller ==
  /\ WF_vars(NewBlock(MaxHeight))
  /\ WF_vars(timerFires(MaxCallbacks))
  /\ WF_vars(CallbackContinues)
  /\ SF_vars(getBlockNumberResolves)
  /\ SF_vars(getLogsResolves)

SpecPollerLive == SpecPoller /\ FairPoller

-----------------------------------------------------------------------------
(* Properties *)

RECURSIVE SumAmounts(_)
SumAmounts(transfers) ==
  IF transfers = <<>> THEN 0
  ELSE Head(transfers).amount + SumAmounts(Tail(transfers))

FromLender(transfers, sender) ==
  SelectSeq(transfers, LAMBDA t : t.lender = sender)

\* the set partition a combination stands for: groups as sets of task ids
AsSetPartition(combination) ==
  {{combination[g][i].taskId : i \in 1..Len(combination[g])} :
     g \in 1..Len(combination)}

RECURSIVE Binomial(_, _)
Binomial(n, k) ==
  IF k = 0 \/ k = n THEN 1
  ELSE Binomial(n - 1, k - 1) + Binomial(n - 1, k)

\* Bell(0) = 1, Bell(n+1) = sum over k in 0..n of Binomial(n, k) * Bell(k)
RECURSIVE Bell(_)
RECURSIVE BellSum(_, _)
BellSum(n, k) ==
  IF k < 0 THEN 0 ELSE Binomial(n, k) * Bell(k) + BellSum(n, k - 1)

Bell(n) == IF n = 0 THEN 1 ELSE BellSum(n - 1, n - 1)

FilterPassing(ts) ==
  {c \in Range(generateLoanTaskCombinations(ts)) : isLoanCombinationPossible(c)}

MatchedGroups(result) ==
  {g \in 1..Len(result.matchings) :
     result.matchings[g].feasibility \in MatchedTypes}

\* C1: in processBatch, the best result chosen for a maturity group matches
\* at least as much as every filter-passing partition of that group; where no
\* result is chosen, no filter-passing partition matches anything.
C1_BestMaximizesMatched ==
  run.called =>
    \A g \in 1..Len(run.groups) :
      \A c \in FilterPassing(run.groups[g].groupTasks) :
        IF run.groups[g].outcome = "Best result"
          THEN run.groups[g].bestResult.totalMatchedAmount
                 >= computeLoanMatchingResult(c).totalMatchedAmount
          ELSE computeLoanMatchingResult(c).totalMatchedAmount = 0

\* a maturity group whose filter-passing partitions match different positive
\* amounts, and a best result was chosen
C1_Witness ==
  /\ run.called
  /\ \E g \in 1..Len(run.groups) :
       /\ run.groups[g].outcome = "Best result"
       /\ \E c \in FilterPassing(run.groups[g].groupTasks) :
            /\ computeLoanMatchingResult(c).totalMatchedAmount > 0
            /\ computeLoanMatchingResult(c).totalMatchedAmount
                 < run.groups[g].bestResult.totalMatchedAmount

\* C2: for every matched group of a filter-passing partition and every
\* lender of it, the transfers drawn from that lender sum to at most
\* lenderShare = floor(principal * matchedAmount / totalLenderAmount).
C2_LenderDrawWithinShare ==
  (ret.fn = "evaluate" /\ ret.possible) =>
    \A g \in MatchedGroups(ret.result) :
      LET m == ret.result.matchings[g] IN
      \A i \in 1..Len(m.loanTasks) :
        m.loanTasks[i].isLender =>
          /\ SumAmounts(FromLender(ret.transfers, m.loanTasks[i].sender))
               <= (m.loanTasks[i].principalAmount * m.matchedAmount)
                    \div m.totalLenderAmount
          /\ SumAmounts(FromLender(ret.transfers, m.loanTasks[i].sender))
               <= m.loanTasks[i].principalAmount

TaskOfSender(ts, sender) == CHOOSE t \in Range(ts) : t.sender = sender

\* C3 as stated: in every filter-passing partition of a list of orders (here
\* the batch as collected, before any split), all orders of a matched group
\* have the same maturity.
C3_MatchedGroupOneMaturity ==
  run.called =>
    \A c \in FilterPassing(run.tasks) :
      \A k \in MatchedGroups(computeLoanMatchingResult(c)) :
        LET m == computeLoanMatchingResult(c).matchings[k] IN
        \A i \in 1..Len(m.loanTasks) :
          m.loanTasks[i].maturityTimestamp = m.maturityTimestamp

\* C3 amended: in processBatch, which splits the batch by groupByMaturity,
\* all orders of a matched group of a filter-passing partition have the
\* group's maturity, and every transfer handed over joins a lender order and
\* a borrower order whose maturities equal the transfer's.
C3_ProcessBatchOneMaturity ==
  run.called =>
    /\ \A g \in 1..Len(run.groups) :
         \A c \in FilterPassing(run.groups[g].groupTasks) :
           \A k \in MatchedGroups(computeLoanMatchingResult(c)) :
             LET m == computeLoanMatchingResult(c).matchings[k] IN
             \A i \in 1..Len(m.loanTasks) :
               m.loanTasks[i].maturityTimestamp = m.maturityTimestamp
    /\ \A i \in 1..Len(run.allTransfers) :
         LET t == run.allTransfers[i] IN
         /\ TaskOfSender(run.tasks, t.lender).isLender
         /\ ~TaskOfSender(run.tasks, t.borrower).isLender
         /\ TaskOfSender(run.tasks, t.lender).maturityTimestamp
              = t.maturityTimestamp
         /\ TaskOfSender(run.tasks, t.borrower).maturityTimestamp
              = t.maturityTimestamp

\* a processed batch with orders of two maturities, a lender and a borrower
\* on each side of the split, and a transfer
C3_Witness ==
  /\ run.called
  /\ Len(run.groups) >= 2
  /\ Len(run.allTransfers) > 0
  /\ \E i, j \in 1..Len(run.tasks) :
       /\ run.tasks[i].isLender
       /\ ~run.tasks[j].isLender
       /\ run.tasks[i].maturityTimestamp # run.tasks[j].maturityTimestamp
       /\ run.tasks[i].interestRateBips <= run.tasks[j].interestRateBips

Pairings(m) == Len(LendersOf(m.loanTasks)) * Len(BorrowersOf(m.loanTasks))

RECURSIVE SumPairings(_, _)
SumPairings(result, S) ==
  IF S = {} THEN 0
  ELSE LET g == CHOOSE y \in S : TRUE
       IN Pairings(result.matchings[g]) + SumPairings(result, S \ {g})

\* C4: for the result of a filter-passing partition, the transfers sum to at
\* most totalMatchedAmount, and in every matched group they fall short of the
\* group's matchedAmount by less than its number of lender-borrower pairings;
\* so the total shortfall is less than the pairings summed over the matched
\* groups (both are zero where no group matched).
C4_TransferSumWithinDust ==
  (ret.fn = "evaluate" /\ ret.possible) =>
    LET matched == MatchedGroups(ret.result)
        total == ret.result.totalMatchedAmount
        sent == SumAmounts(ret.transfers)
    IN /\ sent <= total
       /\ \A g \in matched :
            LET m == ret.result.matchings[g]
                groupSent == SumAmounts(MatchingTransfers(m))
            IN /\ groupSent <= m.matchedAmount
               /\ m.matchedAmount - groupSent < Pairings(m)
       /\ IF matched = {} THEN total = 0 /\ sent = 0
          ELSE total - sent < SumPairings(ret.result, matched)

\* a filter-passing partition with a matched group of several pairings whose
\* transfers leave dust
C4_Witness ==
  /\ ret.fn = "evaluate"
  /\ ret.possible
  /\ \E g \in MatchedGroups(ret.result) : Pairings(ret.result.matchings[g]) >= 2
  /\ SumAmounts(ret.transfers) > 0
  /\ SumAmounts(ret.transfers) < ret.result.totalMatchedAmount

\* C5: for every evaluated partition, filter-passing or not, each group's
\* matchedAmount is at most the smaller of the group's lender and borrower
\* principal sums, and both unmatched amounts of the result are >= 0.
C5_MatchedBoundedUnmatchedNonNegative ==
  ret.fn = "evaluate" =>
    /\ \A g \in 1..Len(ret.result.matchings) :
         LET m == ret.result.matchings[g] IN
         /\ m.matchedAmount <= SumPrincipal(LendersOf(ret.combination[g]))
         /\ m.matchedAmount <= SumPrincipal(BorrowersOf(ret.combination[g]))
    /\ ret.result.unmatchedLenderAmount >= 0
    /\ ret.result.unmatchedBorrowerAmount >= 0

\* an evaluated partition that fails the filter, with one group matched on
\* unequal sides and one group rejected
C5_Witness ==
  /\ ret.fn = "evaluate"
  /\ ~ret.possible
  /\ \E g \in 1..Len(ret.result.matchings) :
       /\ ret.result.matchings[g].matchedAmount > 0
       /\ ret.result.matchings[g].feasibility = "PARTIAL_LENDER"
  /\ \E g \in 1..Len(ret.result.matchings) :
       ret.result.matchings[g].feasibility
         \in {"NO_RATE_OVERLAP", "MATURITY_MISMATCH"}
  /\ ret.result.unmatchedLenderAmount > 0

PairwiseDistinctPartitions(combinations) ==
  \A i, j \in 1..Len(combinations) :
    i # j => AsSetPartition(combinations[i]) # AsSetPartition(combinations[j])

\* C6 as stated: for every n >= 0 the generator returns Bell(n) partitions,
\* pairwise different as set partitions.
C6_BellCountFromZero ==
  ret.fn = "generate" =>
    /\ Len(ret.combinations) = Bell(Len(tasks))
    /\ PairwiseDistinctPartitions(ret.combinations)

\* C6 amended: for every n >= 1 the generator returns Bell(n) partitions,
\* pairwise different as set partitions; for n = 0 it returns none.
C6_BellCountFromOne ==
  ret.fn = "generate" =>
    /\ Len(tasks) >= 1 => Len(ret.combinations) = Bell(Len(tasks))
    /\ Len(tasks) = 0 => Len(ret.combinations) = 0
    /\ PairwiseDistinctPartitions(ret.combinations)

\* the generator returned the 15 partitions of four tasks
C6_Witness ==
  /\ ret.fn = "generate"
  /\ Len(tasks) = 4
  /\ Len(ret.combinations) = 15

\* C7: every generated partition is a set partition of the input: no group
\* is empty, and every input task is at exactly one place of one group, and
\* nothing else is.
C7_TrueSetPartition ==
  ret.fn = "generate" =>
    \A k \in 1..Len(ret.combinations) :
      LET c == ret.combinations[k]
          Places == {<<g, i>> \in (1..Len(c)) \X (1..Len(tasks)) :
                       i <= Len(c[g])}
      IN /\ \A g \in 1..Len(c) : Len(c[g]) >= 1 /\ Len(c[g]) <= Len(tasks)
         /\ \A p \in Places : c[p[1]][p[2]] \in Range(tasks)
         /\ \A n \in 1..Len(tasks) :
              Cardinality({p \in Places : c[p[1]][p[2]] = tasks[n]}) = 1

\* a generated partition in which the first task joined a later group
C7_Witness ==
  /\ ret.fn = "generate"
  /\ Len(tasks) >= 3
  /\ \E k \in 1..Len(ret.combinations) :
       /\ Len(ret.combinations[k]) = 2
       /\ Len(ret.combinations[k][2]) = 2
       /\ ret.combinations[k][2][1] = tasks[1]

\* the conditions on one group of more than one order, by its members
GroupAcceptable(group) ==
  LET L == {t \in Range(group) : t.isLender}
      B == {t \in Range(group) : ~t.isLender}
  IN /\ L # {}
     /\ B # {}
     /\ \E l \in L, b \in B : l.interestRateBips <= b.interestRateBips
     /\ \E l \in L, b \in B : l.maturityTimestamp = b.maturityTimestamp

\* C8: the filter accepts a partition exactly when every group of more than
\* one order has a lender and a borrower, min lender rate <= max borrower
\* rate, and a maturity held by a lender and a borrower; groups of one order
\* never reject.
C8_FilterCharacterisation ==
  ret.fn = "evaluate" =>
    (ret.possible <=>
       \A g \in 1..Len(ret.combination) :
         Len(ret.combination[g]) > 1 => GroupAcceptable(ret.combination[g]))

\* a partition rejected only because no maturity is shared by both sides
C8_Witness ==
  /\ ret.fn = "evaluate"
  /\ ~ret.possible
  /\ \E g \in 1..Len(ret.combination) :
       LET L == {t \in Range(ret.combination[g]) : t.isLender}
           B == {t \in Range(ret.combination[g]) : ~t.isLender}
       IN /\ \E l \in L, b \in B : l.interestRateBips <= b.interestRateBips
          /\ \A l \in L, b \in B : l.maturityTimestamp # b.maturityTimestamp

\* a ranks strictly above b in the ordered comparison
RanksAbove(a, b) ==
  \/ a.totalMatchedAmount > b.totalMatchedAmount
  \/ a.totalMatchedAmount = b.totalMatchedAmount
       /\ a.matchingEfficiency > b.matchingEfficiency
  \/ a.totalMatchedAmount = b.totalMatchedAmount
       /\ a.matchingEfficiency = b.matchingEfficiency
       /\ a.averageBorrowerRate < b.averageBorrowerRate

AllFeasible(results) == \A i \in 1..Len(results) : results[i].feasible

\* C9: on a non-empty list of feasible results the selector returns the
\* first candidate of the list that no candidate ranks above (larger
\* totalMatchedAmount, then larger matchingEfficiency, then smaller average
\* rate).
C9_SelectorReturnsFirstMaximal ==
  (bestRet.called /\ Len(possibleResults) > 0 /\ AllFeasible(possibleResults))
    =>
    \E i \in 1..Len(possibleResults) :
      /\ bestRet.value = possibleResults[i]
      /\ \A j \in 1..Len(possibleResults) :
           ~RanksAbove(possibleResults[j], possibleResults[i])
      /\ \A j \in 1..(i - 1) :
           RanksAbove(possibleResults[i], possibleResults[j])

\* two different candidates tie on all three criteria at the top of the
\* list's ranking, behind a lower-ranked first candidate
C9_Witness ==
  /\ bestRet.called
  /\ Len(possibleResults) = 3
  /\ AllFeasible(possibleResults)
  /\ RanksAbove(possibleResults[2], possibleResults[1])
  /\ ~RanksAbove(possibleResults[2], possibleResults[3])
  /\ ~RanksAbove(possibleResults[3], possibleResults[2])
  /\ possibleResults[2] # possibleResults[3]
  /\ bestRet.value = possibleResults[2]

\* C10: called on an empty list the selector fails with EmptyResultSet and
\* returns no value.
C10_EmptyListFails ==
  (bestRet.called /\ Len(possibleResults) = 0) =>
    bestRet.outcome = "EmptyResultSet"

\* the conditions of the filter on a set of orders taken as one group
SetAcceptable(S) ==
  LET L == {t \in S : t.isLender}
      B == {t \in S : ~t.isLender}
  IN /\ \E l \in L, b \in B : l.interestRateBips <= b.interestRateBips
     /\ \E l \in L, b \in B : l.maturityTimestamp = b.maturityTimestamp

NoGroupCanMatch(ts) ==
  \A S \in SUBSET Range(ts) : Cardinality(S) >= 2 => ~SetAcceptable(S)

\* C11: for a non-empty batch of which no group of several orders can match,
\* generator, filter, evaluator and computeBestLoanResult over all
\* filter-passing partitions raise no error and return a result with
\* feasibilityType NONE and totalMatchedAmount 0, and computeLoanTransfers
\* emits no transfer for it.
C11_NoMatchIsTypedEmptyResult ==
  (ret.fn = "match" /\ Len(tasks) >= 1 /\ NoGroupCanMatch(tasks)) =>
    /\ ret.outcome = "returned"
    /\ ret.best.feasibilityType = "NONE"
    /\ ret.best.totalMatchedAmount = 0
    /\ ret.best.feasible = FALSE
    /\ ret.transfers = <<>>

\* Scenario B: a lender whose rate is above the rate of a borrower of the
\* same maturity, and nothing in the batch can match
C11_Witness ==
  /\ ret.fn = "match"
  /\ Len(tasks) >= 2
  /\ NoGroupCanMatch(tasks)
  /\ \E i, j \in 1..Len(tasks) :
       /\ tasks[i].isLender
       /\ ~tasks[j].isLender
       /\ tasks[i].maturityTimestamp = tasks[j].maturityTimestamp
       /\ tasks[i].interestRateBips > tasks[j].interestRateBips
  /\ ret.outcome = "returned"
  /\ Len(ret.best.matchings) = Len(tasks)

\* the sender of the one order of the batch on that side with that principal
SenderOf(ts, isLender, principalAmount) ==
  (CHOOSE t \in Range(ts) :
     t.isLender = isLender /\ t.principalAmount = principalAmount).sender

TransferSet(transfers) ==
  {<<transfers[i].lender, transfers[i].borrower, transfers[i].amount>> :
     i \in 1..Len(transfers)}

\* C12: for the batch of Scenario A the selected best result has
\* totalMatchedAmount 35,000 and exactly three transfers: 5,000 from the
\* 400-bips lender and 10,000 from the 500-bips lender to the 15,000
\* borrower, and 20,000 from the 600-bips lender to the 20,000 borrower.
C12_ScenarioATransfers ==
  ret.fn = "match" =>
    /\ ret.outcome = "returned"
    /\ ret.best.totalMatchedAmount = 35000
    /\ Len(ret.transfers) = 3
    /\ TransferSet(ret.transfers) =
         { <<SenderOf(tasks, TRUE, 5000), SenderOf(tasks, FALSE, 15000), 5000>>,
           <<SenderOf(tasks, TRUE, 10000), SenderOf(tasks, FALSE, 15000),
             10000>>,
           <<SenderOf(tasks, TRUE, 20000), SenderOf(tasks, FALSE, 20000),
             20000>> }

SentBy(transfers, task) == SumAmounts(FromLender(transfers, task.sender))

LenderSet(ts) == {t \in Range(ts) : t.isLender}

\* C13 as stated: for every batch of Scenario C the best result is
\* PARTIAL_LENDER with 20,000 matched and 10,000 of the lenders unmatched,
\* the transfers sum to exactly 20,000 and each lender supplies
\* floor(principal * 20,000 / 30,000).
C13_ScenarioCExact ==
  ret.fn = "match" =>
    /\ ret.outcome = "returned"
    /\ ret.best.feasibilityType = "PARTIAL_LENDER"
    /\ ret.best.totalMatchedAmount = 20000
    /\ ret.best.unmatchedLenderAmount = 10000
    /\ SumAmounts(ret.transfers) = 20000
    /\ \A l \in LenderSet(tasks) :
         SentBy(ret.transfers, l) = (l.principalAmount * 20000) \div 30000

\* C13 amended: for every batch of Scenario C the best result has 20,000
\* matched and 10,000 of the lenders unmatched.  Either it is the one group
\* of all three orders: then it is PARTIAL_LENDER, each lender supplies
\* floor(principal * 20,000 / 30,000), and the transfers sum to 20,000 when
\* the principals are multiples of 3 and to 19,999 otherwise.  Or it pairs
\* the borrower with one lender holding at least 20,000 and leaves the other
\* lender alone: then that lender supplies exactly 20,000, the other
\* nothing, and the result is FULL_MATCH when the lender holds exactly
\* 20,000 and PARTIAL_LENDER when it holds more.  The pair is never chosen
\* when both lenders hold less than 20,000.
C13_ScenarioCWithinDust ==
  ret.fn = "match" =>
    /\ ret.outcome = "returned"
    /\ ret.best.totalMatchedAmount = 20000
    /\ ret.best.unmatchedLenderAmount = 10000
    /\ \A i \in 1..Len(ret.transfers) :
         ret.transfers[i].borrower = SenderOf(tasks, FALSE, 20000)
    /\ \/ /\ Len(ret.best.matchings) = 1
          /\ ret.best.feasibilityType = "PARTIAL_LENDER"
          /\ \A l \in LenderSet(tasks) :
               SentBy(ret.transfers, l) = (l.principalAmount * 20000) \div 30000
          /\ SumAmounts(ret.transfers) =
               IF \A l \in LenderSet(tasks) : l.principalAmount % 3 = 0
                 THEN 20000 ELSE 19999
       \/ /\ Len(ret.best.matchings) = 2
          /\ \E l \in LenderSet(tasks) :
               /\ l.principalAmount >= 20000
               /\ SentBy(ret.transfers, l) = 20000
               /\ \A o \in LenderSet(tasks) \ {l} : SentBy(ret.transfers, o) = 0
               /\ ret.best.feasibilityType =
                    IF l.principalAmount = 20000 THEN "FULL_MATCH"
                    ELSE "PARTIAL_LENDER"
          /\ SumAmounts(ret.transfers) = 20000

\* the one group of all three orders was chosen and its transfers leave one
\* unit of the 20,000 unsent
C13_Witness ==
  /\ ret.fn = "match"
  /\ Len(ret.best.matchings) = 1
  /\ ret.best.feasibilityType = "PARTIAL_LENDER"
  /\ Len(ret.transfers) = 2
  /\ SumAmounts(ret.transfers) = 19999

SideSum(group, isLender) ==
  SumPrincipal(SelectSeq(group, LAMBDA t : t.isLender = isLender))

SideRates(group, isLender) ==
  {t.interestRateBips : t \in {x \in Range(group) : x.isLender = isLender}}

SharedMaturities(group) ==
  {m \in {t.maturityTimestamp : t \in Range(group)} :
     /\ \E t \in Range(group) : t.isLender /\ t.maturityTimestamp = m
     /\ \E t \in Range(group) : ~t.isLender /\ t.maturityTimestamp = m}

\* C14: for every group of several orders of a filter-passing partition the
\* evaluator sets matchedAmount to the smaller side sum, effectiveRate to
\* floor((min lender rate + max borrower rate) / 2), maturityTimestamp to the
\* smallest maturity held by a lender and a borrower, and the class to
\* FULL_MATCH, PARTIAL_LENDER or PARTIAL_BORROWER as the side sums are
\* equal, lender-heavy or borrower-heavy; a group of one order gets
\* matchedAmount 0 and class NONE.
C14_GroupEvaluation ==
  (ret.fn = "evaluate" /\ ret.possible) =>
    /\ Len(ret.result.matchings) = Len(ret.combination)
    /\ \A g \in 1..Len(ret.combination) :
         LET group == ret.combination[g]
             m == ret.result.matchings[g]
             lenderSum == SideSum(group, TRUE)
             borrowerSum == SideSum(group, FALSE)
         IN IF Len(group) = 1
              THEN m.matchedAmount = 0 /\ m.feasibility = "NONE"
            ELSE
              /\ m.matchedAmount =
                   IF lenderSum <= borrowerSum THEN lenderSum ELSE borrowerSum
              /\ \E q \in 0..SetMax(SideRates(group, FALSE)) :
                   /\ m.effectiveRate = q
                   /\ 2 * q <= SetMin(SideRates(group, TRUE))
                                 + SetMax(SideRates(group, FALSE))
                   /\ 2 * (q + 1) > SetMin(SideRates(group, TRUE))
                                      + SetMax(SideRates(group, FALSE))
              /\ m.maturityTimestamp \in SharedMaturities(group)
              /\ \A x \in SharedMaturities(group) : m.maturityTimestamp <= x
              /\ lenderSum = borrowerSum => m.feasibility = "FULL_MATCH"
              /\ lenderSum > borrowerSum => m.feasibility = "PARTIAL_LENDER"
              /\ lenderSum < borrowerSum => m.feasibility = "PARTIAL_BORROWER"

\* a filter-passing group of two lenders and two borrowers sharing both
\* maturities, listed with the later one first, whose rate sum is odd
C14_Witness ==
  /\ ret.fn = "evaluate"
  /\ ret.possible
  /\ Len(ret.combination) = 1
  /\ Cardinality(SharedMaturities(ret.combination[1])) = 2
  /\ ret.combination[1][1].maturityTimestamp = 2
  /\ ret.result.matchings[1].maturityTimestamp = 1
  /\ (SetMin(SideRates(ret.combination[1], TRUE))
        + SetMax(SideRates(ret.combination[1], FALSE))) % 2 = 1
  /\ ret.result.matchings[1].effectiveRate = 1
  /\ ret.result.matchings[1].feasibility = "FULL_MATCH"

GroupClasses(result) ==
  {result.matchings[g].feasibility : g \in 1..Len(result.matchings)}

\* C15: for every evaluated partition the overall feasibilityType is NONE
\* when no group is FULL_MATCH, PARTIAL_LENDER or PARTIAL_BORROWER,
\* FULL_MATCH when every group of these classes is FULL_MATCH, PARTIAL_BOTH
\* when a PARTIAL_LENDER and a PARTIAL_BORROWER group exist, and otherwise
\* the one partial class present.
C15_OverallFeasibilityType ==
  ret.fn = "evaluate" =>
    LET matched == GroupClasses(ret.result) \cap MatchedTypes IN
    ret.result.feasibilityType =
      IF matched = {} THEN "NONE"
      ELSE IF matched = {"FULL_MATCH"} THEN "FULL_MATCH"
      ELSE IF {"PARTIAL_LENDER", "PARTIAL_BORROWER"} \subseteq matched
        THEN "PARTIAL_BOTH"
      ELSE IF "PARTIAL_LENDER" \in matched THEN "PARTIAL_LENDER"
      ELSE "PARTIAL_BORROWER"

\* the sum of effectiveRate * matchedAmount over the groups G of a result
RECURSIVE WeightedRateOver(_, _)
WeightedRateOver(result, G) ==
  IF G = {} THEN 0
  ELSE LET g == CHOOSE x \in G : TRUE
       IN result.matchings[g].effectiveRate * result.matchings[g].matchedAmount
            + WeightedRateOver(result, G \ {g})

\* C16: for every evaluated partition the average lender rate and the
\* average borrower rate are the same value; with W the sum over the
\* matched groups of effectiveRate * matchedAmount and T = totalMatchedAmount
\* > 0 it is the largest multiple q of 10^-4 with q * T <= W, and it is 0
\* when T = 0.
C16_AverageRateTruncated ==
  ret.fn = "evaluate" =>
    LET W == WeightedRateOver(ret.result, MatchedGroups(ret.result))
        T == ret.result.totalMatchedAmount
        q == ret.result.averageBorrowerRate
    IN /\ ret.result.averageLenderRate = q
       /\ T = SumField(ret.result.matchings, "matchedAmount")
       /\ IF T = 0 THEN q = 0
          ELSE /\ q >= 0
               /\ q * T <= W * 10000
               /\ (q + 1) * T > W * 10000

\* two matched groups of different rates, one of them with more lent than
\* borrowed, whose weighted average is two thirds: truncated it is 0.6666,
\* rounded to the nearest it would be 0.6667
C16_Witness ==
  /\ ret.fn = "evaluate"
  /\ ret.possible
  /\ Cardinality(MatchedGroups(ret.result)) = 2
  /\ \E g \in MatchedGroups(ret.result) :
       ret.result.matchings[g].feasibility = "PARTIAL_LENDER"
  /\ ret.result.totalMatchedAmount = 3
  /\ WeightedRateOver(ret.result, MatchedGroups(ret.result)) = 2
  /\ ret.result.averageBorrowerRate = 6666

\* the groups of the result that hold the lender and the borrower of a
\* transfer, each on its side
GroupsOfTransfer(result, t) ==
  {g \in 1..Len(result.matchings) :
     /\ \E k \in 1..Len(result.matchings[g].loanTasks) :
          /\ result.matchings[g].loanTasks[k].sender = t.lender
          /\ result.matchings[g].loanTasks[k].isLender
     /\ \E k \in 1..Len(result.matchings[g].loanTasks) :
          /\ result.matchings[g].loanTasks[k].sender = t.borrower
          /\ ~result.matchings[g].loanTasks[k].isLender}

\* C17: every transfer of computeLoanTransfers joins a lender and a borrower
\* of one group classed FULL_MATCH, PARTIAL_LENDER or PARTIAL_BORROWER, its
\* amount is greater than zero, and its rate and maturity are that group's
\* effectiveRate and maturityTimestamp.
C17_TransfersFromMatchedGroups ==
  ret.fn = "evaluate" =>
    \A i \in 1..Len(ret.transfers) :
      LET t == ret.transfers[i] IN
      /\ t.amount > 0
      /\ Cardinality(GroupsOfTransfer(ret.result, t)) = 1
      /\ \A g \in GroupsOfTransfer(ret.result, t) :
           /\ ret.result.matchings[g].feasibility \in MatchedTypes
           /\ t.rate = ret.result.matchings[g].effectiveRate
           /\ t.maturityTimestamp = ret.result.matchings[g].maturityTimestamp

\* a rejected group beside a matched group whose transfer carries rate 1 and
\* maturity 2
C17_Witness ==
  /\ ret.fn = "evaluate"
  /\ Len(ret.combination) = 2
  /\ ret.result.matchings[1].feasibility = "NO_RATE_OVERLAP"
  /\ ret.result.matchings[2].feasibility = "FULL_MATCH"
  /\ Len(ret.transfers) = 1
  /\ ret.transfers[1].rate = 1
  /\ ret.transfers[1].maturityTimestamp = 2

\* the orders of the processed batch that received or sent no transfer
UnmatchedOrders ==
  {t \in Range(run.tasks) :
     \A i \in 1..Len(run.allTransfers) :
       /\ run.allTransfers[i].lender # t.sender
       /\ run.allTransfers[i].borrower # t.sender}

\* C18: after processBatch every order of the batch that took part in no
\* transfer is still held by the operator in its batch for a later round.
C18_UnmatchedOrdersRetained ==
  run.called => \A t \in UnmatchedOrders : t \in Range(batch)

HasNegativePrincipal(ts) ==
  \E i \in 1..Len(ts) : ts[i].principalAmount < 0

\* C19: a task list holding an order of negative principal amount is
\* rejected with InvalidInput: no partition is enumerated, and no matching
\* result and no transfer is produced from it.
C19_NegativeAmountRejected ==
  HasNegativePrincipal(tasks) =>
    /\ ret.fn = "generate" => ret.combinations = <<>>
    /\ ret.fn = "match" =>
         /\ ret.outcome = "InvalidInput"
         /\ ret.results = <<>>
         /\ ret.transfers = <<>>

\* C20: every transfer computed for the result of a filter-passing
\* partition carries a rate that is at least the interestRateBips of the
\* lender order it draws from and at most the interestRateBips of the
\* borrower order it fills.
C20_TransferRateWithinOrderLimits ==
  (ret.fn = "evaluate" /\ ret.possible) =>
    \A i \in 1..Len(ret.transfers) :
      LET t == ret.transfers[i] IN
      /\ t.rate >= TaskOfSender(tasks, t.lender).interestRateBips
      /\ t.rate <= TaskOfSender(tasks, t.borrower).interestRateBips

ToBorrower(transfers, sender) ==
  SelectSeq(transfers, LAMBDA t : t.borrower = sender)

\* C21: for every matched group and every borrower order of it, the
\* transfers to that borrower sum to at most
\* floor(principal * matchedAmount / totalBorrowerAmount) of the group, and
\* so to at most the principal the borrower asked for.
C21_BorrowerFillWithinShare ==
  ret.fn = "evaluate" =>
    \A g \in MatchedGroups(ret.result) :
      LET m == ret.result.matchings[g] IN
      \A i \in 1..Len(m.loanTasks) :
        ~m.loanTasks[i].isLender =>
          /\ SumAmounts(ToBorrower(ret.transfers, m.loanTasks[i].sender))
               <= (m.loanTasks[i].principalAmount * m.matchedAmount)
                    \div m.totalBorrowerAmount
          /\ SumAmounts(ToBorrower(ret.transfers, m.loanTasks[i].sender))
               <= m.loanTasks[i].principalAmount

\* a borrower filled to its whole share by two lenders, beside a borrower
\* of the same group
C21_Witness ==
  /\ ret.fn = "evaluate"
  /\ \E g \in MatchedGroups(ret.result) :
       LET m == ret.result.matchings[g] IN
       /\ Len(BorrowersOf(m.loanTasks)) = 2
       /\ \E i \in 1..Len(m.loanTasks) :
            /\ ~m.loanTasks[i].isLender
            /\ Len(ToBorrower(ret.transfers, m.loanTasks[i].sender)) = 2
            /\ SumAmounts(ToBorrower(ret.transfers, m.loanTasks[i].sender))
                 = m.loanTasks[i].principalAmount


\* the last call is a respondToLoanBatch that did not revert
BatchAccepted ==
  /\ manager.lastCall.fn = "respondToLoanBatch"
  /\ manager.lastCall.outcome = "ok"

\* the response stored for taskId before the last accepted batch
ResponseBefore(taskId) ==
  IF taskId + 1 <= Len(manager.lastCall.preResponses)
    THEN manager.lastCall.preResponses[taskId + 1]
  ELSE EmptyBytes

\* C22: in every successful respondToLoanBatch, each element of tasks that
\* validateMatches uses has passed the per-task checks (its hash is the
\* stored hash of its reference index, it is unexpired, no response was
\* stored for it), so no already-responded task takes part in a later
\* successful batch.
C22_UsedTasksAreChecked ==
  BatchAccepted =>
    LET c == manager.lastCall IN
    \A j \in c.used :
      /\ j <= Len(c.referenceTaskIndices)
      /\ Keccak(c.tasks[j]) = ReadHash(manager, c.referenceTaskIndices[j])
      /\ c.tasks[j].expiry > c.preTimestamp
      /\ ResponseBefore(c.referenceTaskIndices[j]) = EmptyBytes
      /\ ResponseBefore(c.tasks[j].taskId) = EmptyBytes



\* the storage of the contract
Storage(m, taskNum) ==
  <<m.allTaskHashes, m.allTaskResponses, m.batches, m.currentBatchId, taskNum>>

\* C28: currentBatchId grows by exactly one on each successful
\* respondToLoanBatch and latestTaskNum by one on each successful
\* createLoanOrder; a reverted call changes neither (nor any storage), and
\* one that reverts inside createBatchLoans restores the storage of before
\* the transaction; every id below currentBatchId holds a batch with
\* executed = true, the batch of a successful call carries its caller as
\* operator and stored batches stay as they are; a stored task hash is never
\* overwritten.
C28_CountersAndStoredBatches ==
  [][LET c == manager'.lastCall
         called == c.fn \in {"createLoanOrder", "respondToLoanBatch"}
         rolledBack == manager.pending.active /\ ~manager'.pending.active
                         /\ c.outcome = "revert"
     IN /\ (called /\ c.outcome = "revert") =>
             Storage(manager', latestTaskNum') =
               IF rolledBack
                 THEN Storage(manager.pending.pre, manager.pending.preTaskNum)
               ELSE Storage(manager, latestTaskNum)
        /\ (c.fn = "respondToLoanBatch" /\ c.outcome = "ok") =>
             /\ manager'.currentBatchId = manager.currentBatchId + 1
             /\ manager'.currentBatchId = manager.pending.pre.currentBatchId + 1
             /\ latestTaskNum' = latestTaskNum
             /\ manager'.batches[manager.currentBatchId + 1].operator = c.caller
        /\ (c.fn = "respondToLoanBatch" /\ c.outcome = "in createBatchLoans") =>
             /\ manager'.currentBatchId = manager.currentBatchId
             /\ latestTaskNum' = latestTaskNum
        /\ (c.fn = "createLoanOrder" /\ c.outcome = "ok") =>
             /\ latestTaskNum' = latestTaskNum + 1
             /\ manager'.currentBatchId = manager.currentBatchId
             /\ Len(manager'.allTaskHashes) = latestTaskNum'
        /\ Len(manager'.batches) =
             manager'.currentBatchId + IF manager'.pending.active THEN 1 ELSE 0
        /\ \A id \in 1..manager'.currentBatchId :
             /\ manager'.batches[id].executed
             /\ id <= manager.currentBatchId =>
                  manager'.batches[id] = manager.batches[id]
        /\ \A k \in 1..Len(manager.allTaskHashes) :
             k <= Len(manager'.allTaskHashes) =>
               manager'.allTaskHashes[k] = manager.allTaskHashes[k]]_vars

\* two orders stored and one batch accepted, then a second submission of
\* the same tasks that reverted
C28_Witness ==
  /\ latestTaskNum = 2
  /\ Len(manager.allTaskHashes) = 2
  /\ manager.allTaskHashes[1] # manager.allTaskHashes[2]
  /\ manager.currentBatchId = 1
  /\ manager.batches[1].operator = "operator"
  /\ manager.batches[1].executed
  /\ manager.lastCall.fn = "respondToLoanBatch"
  /\ manager.lastCall.outcome = "revert"
  /\ manager.lastCall.reason = "Task already responded"

\* C25: the tasks and reference task ids that processBatch submits hold only
\* orders that take part in at least one transfer; an order left unmatched
\* is not among them.
C25_SubmittedTasksAreMatched ==
  (run.called /\ run.submit) =>
    \A i \in 1..Len(run.allMatchedTasks) :
      run.allMatchedTasks[i] \notin UnmatchedOrders

\* the partition of ts into groups of one order each
AllSingletons(ts) == {{ts[i].taskId} : i \in 1..Len(ts)}

\* C26: for every non-empty maturity group the all-singletons partition is
\* generated and passes the filter, so some partition always does, and
\* computeBestLoanResult is called (bestResult is set) only with a non-empty
\* list of feasible results.
C26_SelectorNeverGetsEmptyList ==
  run.called =>
    \A g \in 1..Len(run.groups) :
      LET r == run.groups[g] IN
      /\ Len(r.groupTasks) > 0
      /\ \E c \in FilterPassing(r.groupTasks) :
           AsSetPartition(c) = AllSingletons(r.groupTasks)
      /\ r.outcome # "No valid combinations"
      /\ r.bestResult # Undefined =>
           /\ Len(r.allResults) > 0
           /\ \A i \in 1..Len(r.allResults) : r.allResults[i].feasible
      /\ r.outcome = "Best result" <=> r.bestResult # Undefined

\* a batch of two maturities: in one group no partition is feasible and the
\* selector is not called, in the other it is called with a feasible result
C26_Witness ==
  /\ run.called
  /\ \E g, h \in 1..Len(run.groups) :
       /\ run.groups[g].outcome = "No feasible matches"
       /\ Len(run.groups[g].groupTasks) >= 1
       /\ run.groups[h].outcome = "Best result"
       /\ Len(run.groups[h].groupTasks) >= 2
       /\ Len(run.groups[h].allResults) >= 1

\* twice the matched amount over the principal of all the orders of the
\* batch, floored at four decimals; 0 for a batch without principal
EfficiencyOfBatch(matched, ts) ==
  LET totalAmount == SideSum(ts, TRUE) + SideSum(ts, FALSE)
  IN IF totalAmount > 0 THEN (2 * matched * 10000) \div totalAmount ELSE 0

\* C27: for every filter-passing partition of a batch the result's
\* totalLenderAmount and totalBorrowerAmount are the sums of the principal
\* amounts of the batch's lender and borrower orders, whatever the
\* partition; hence matchingEfficiency is a function of the batch and of
\* totalMatchedAmount alone, so two filter-passing partitions of the batch
\* with equal totalMatchedAmount have equal matchingEfficiency; and
\* matchingEfficiency lies between 0 and 1 (0 and 10^4 at four decimals).
C27_TotalsIndependentOfPartition ==
  (ret.fn = "evaluate" /\ ret.possible) =>
    /\ ret.result.totalLenderAmount = SideSum(tasks, TRUE)
    /\ ret.result.totalBorrowerAmount = SideSum(tasks, FALSE)
    /\ ret.result.matchingEfficiency >= 0
    /\ ret.result.matchingEfficiency <= 10000
    /\ ret.result.matchingEfficiency =
         EfficiencyOfBatch(ret.result.totalMatchedAmount, tasks)

\* a filter-passing partition with a matched group and a single order,
\* efficiency strictly between 0 and 1, beside another filter-passing
\* partition of the batch that matches the same amount in other groups and
\* one that matches a different amount
C27_Witness ==
  /\ ret.fn = "evaluate"
  /\ ret.possible
  /\ Len(ret.combination) >= 2
  /\ ret.result.matchingEfficiency > 0
  /\ ret.result.matchingEfficiency < 10000
  /\ \E c \in FilterPassing(tasks) :
       /\ AsSetPartition(c) # AsSetPartition(ret.combination)
       /\ computeLoanMatchingResult(c).totalMatchedAmount
            = ret.result.totalMatchedAmount
  /\ \E c \in FilterPassing(tasks) :
       computeLoanMatchingResult(c).totalMatchedAmount
         # ret.result.totalMatchedAmount

\* C23: for every batch the operator submits, the digest it signed,
\* getLoanBatchHash of the batch's opening block number and the matches, is
\* the digest respondToLoanBatch recomputes from currentBatchId and the
\* matches, and the call of the registered operator does not fail with
\* 'Invalid signature'.
C23_SignedDigestIsRecomputedDigest ==
  \A i \in 1..Len(monitor.submissions) :
    LET sub == monitor.submissions[i] IN
    /\ sub.signature.hash = getLoanBatchHash(sub.currentBatchId, sub.loanMatches)
    /\ ~(/\ sub.outcome.outcome = "revert"
         /\ sub.outcome.reason = "Invalid signature")

\* the n-th event has been delivered and put into a batch, early enough for
\* a block ten blocks after the batch's number to be notified
OrderReceived(n) ==
  /\ monitor.delivered >= n
  /\ monitor.placed[n] + MAX_BLOCKS_PER_BATCH <= MaxBlock

\* the processBatch calls whose batch held the order of the n-th event
ProcessedIn(n) ==
  {j \in 1..Len(monitor.processed) :
     /\ n <= Len(manager.emitted)
     /\ \E i \in 1..Len(monitor.processed[j].taskIds) :
          monitor.processed[j].taskIds[i] = manager.emitted[n].taskId}

\* every order delivered sits in one batch until that batch is processed,
\* no order is processed twice, and a batch opened at a block is processed
\* at a block at least ten later with no block notified in between that was
\* already ten later
OrdersBatchedOnce ==
  /\ \A n \in 1..monitor.delivered :
       /\ Cardinality(ProcessedIn(n)) <= 1
       /\ ProcessedIn(n) = {} =>
            Cardinality({k \in DOMAIN monitor.batches :
                           manager.emitted[n] \in Range(monitor.batches[k])}) = 1
       /\ \A j \in ProcessedIn(n) :
            /\ monitor.processed[j].batchNumber = monitor.placed[n]
            /\ monitor.processed[j].atBlock
                 >= monitor.placed[n] + MAX_BLOCKS_PER_BATCH
  /\ monitor.latestBatchNumber # 0 =>
       monitor.lastBlock - monitor.latestBatchNumber < MAX_BLOCKS_PER_BATCH

\* the block at which the batch of the n-th event was opened: the batch's
\* number, and for the batch kept under 0 the first block notified
OpenedAt(n) ==
  IF monitor.placed[n] # 0 THEN monitor.placed[n]
  ELSE IF Len(monitor.processed) > 0 THEN monitor.processed[1].batchNumber
  ELSE monitor.latestBatchNumber

\* once a block at least ten blocks after the opening of its batch has been
\* notified, an order delivered before that block has been processed
ProcessedByDeadline ==
  \A n \in 1..monitor.delivered :
    (/\ OpenedAt(n) # 0
     /\ monitor.lastBlock - OpenedAt(n) >= MAX_BLOCKS_PER_BATCH)
      => ProcessedIn(n) # {}

\* C24: under any interleaving of NewLoanOrderCreated events and block
\* notifications every order received is in exactly one batch, and while
\* blocks keep arriving that batch is eventually processed, exactly once, at
\* the first notified block at least ten blocks after the batch was opened.
C24_EveryOrderEventuallyProcessed ==
  /\ []OrdersBatchedOnce
  /\ []ProcessedByDeadline
  /\ \A n \in 1..MaxChainTasks : OrderReceived(n) ~> (ProcessedIn(n) # {})

\* matching is processBatch's computation on the current batch
MatchingIsCurrent ==
  monitor.matching =
    ProcessBatchRun(BatchOf(monitor.batches, monitor.latestBatchNumber))

\* ten blocks or more have been mined since 'Processing batch' was last
\* reached (since the start, if never), and the chain has blocks to come
BatchDue ==
  /\ poller.height - poller.lastProcessed >= 10
  /\ poller.height < MaxHeight

\* C29: whenever the chain has advanced ten or more blocks since the last
\* batch processing, a later poll reaches 'Processing batch', in every
\* schedule in which the chain keeps advancing and polls keep running.
C29_BatchEventuallyProcessed ==
  \A k \in 0..(MaxHeight \div 10) :
    (BatchDue /\ poller.processings = k) ~> (poller.processings > k)

CountOf(orders, b) ==
  Cardinality({i \in 1..Len(orders) : orders[i].blockNumber = b})

\* the logs of the blocks up to currentBlock are pending once each, no log
\* is pending twice
LogsAppendedOnce ==
  /\ \A b \in 1..Mathb_min(poller.currentBlock, MaxLogBlock) :
       CountOf(poller.pendingOrders, b) = 1
  /\ \A b \in 1..MaxHeight : CountOf(poller.pendingOrders, b) <= 1

\* C30: under any interleaving of the timer callbacks, failed polls being
\* retried, the logs of every block after the start are appended to
\* pendingOrders exactly once, no block range is skipped or fetched twice,
\* and currentBlock never decreases.
C30_EachBlockFetchedOnce ==
  /\ []LogsAppendedOnce
  /\ [][poller'.currentBlock >= poller.currentBlock]_vars

====
